---- MODULE Spec2Model ----
(***************************************************************************)
(* Authentication and account lifecycle of BAGR-Backend: the users,        *)
(* email_verifications and password_resets tables, the handlers of         *)
(* internal/auth (register, login, verify, forgot/reset password, profile)  *)
(* and of the /users routes, the password policy and the JWT service.      *)
(* Time is counted in hours.                                               *)
(***************************************************************************)
EXTENDS Integers, Sequences, FiniteSets, TLC

VARIABLES
    users,                \* the users table: a sequence of rows, id = position
    email_verifications,  \* rows of the email_verifications table
    password_resets,      \* rows of the password_resets table
    now,                  \* the clock, in hours
    ticks,                \* how many times the clock has advanced
    resp,                 \* the last HTTP exchange: the operation and its response
    reqs,                 \* requests in flight (stepwise handlers)
    registered,           \* history: the emails Register has created an account for
    config                \* config.JWT: the secrets the JWT service was built with

vars == <<users, email_verifications, password_resets, now, ticks, resp, reqs, registered,
          config>>

-----------------------------------------------------------------------------
(* Bounds of the model *)

MaxTicks == 1
MaxReqs == 2
MaxSessionTicks == 3

(* Program constants, in hours *)
VerificationExpiry == 24
ResetExpiry == 1
accessExpiry == 24
refreshExpiry == 168
minLength == 8
bindingMinPassword == 8

(* How far one advance of the clock may go: to the expiry of a reset     *)
(* token, to the expiry of a verification token, or just past it.        *)
TickSteps == {ResetExpiry, VerificationExpiry, VerificationExpiry + 1}

-----------------------------------------------------------------------------
(* Nullable columns and values: NULL is the empty sequence, a value v <<v>>. *)

Null == <<>>
Some(v) == <<v>>
IsNull(c) == c = <<>>
Val(c) == c[1]

-----------------------------------------------------------------------------
(* Request inputs *)

Emails == {"alice@example.com", "bob@example.com"}
Usernames == {"alice", "bob"}
UserRoleAdmin == "admin"
UserRoleArtist == "artist"
UserRoleBuyer == "buyer"
UserRoleModerator == "moderator"
UserRoleProducer == "producer"
UserRoleFan == "fan"
UserStatusActive == "active"
UserStatusInactive == "inactive"
UserStatusSuspended == "suspended"

(* The roles a request is given in the model: a valid one and the legacy one. *)
Roles == {UserRoleFan, UserRoleBuyer}

(* The strings the token generator may return; it is seeded by the clock    *)
(* alone, so a string it has returned before may come back.                *)
TokenStrings == {"tokA", "tokB"}

(* Passwords are sequences of characters. *)
Passw0rd == <<"P", "a", "s", "s", "w", "0", "r", "d">>
Secret99 == <<"S", "e", "c", "r", "e", "t", "9", "9">>
password == <<"p", "a", "s", "s", "w", "o", "r", "d">>
short1A == <<"s", "h", "o", "r", "t", "1", "A">>
Passwords == {Passw0rd, Secret99, password, short1A}
StrongPasswords == {Passw0rd, Secret99}

-----------------------------------------------------------------------------
(* PasswordService *)

UpperChars == {"A", "B", "C", "D", "E", "F", "G", "H", "I", "J", "K", "L", "M",
               "N", "O", "P", "Q", "R", "S", "T", "U", "V", "W", "X", "Y", "Z"}
LowerChars == {"a", "b", "c", "d", "e", "f", "g", "h", "i", "j", "k", "l", "m",
               "n", "o", "p", "q", "r", "s", "t", "u", "v", "w", "x", "y", "z"}
DigitChars == {"0", "1", "2", "3", "4", "5", "6", "7", "8", "9"}

(* Go strings are UTF-8: len(password) counts bytes, one for an ASCII     *)
(* character and two for a character such as a-umlaut.                   *)
TwoByteChars == {"a_umlaut"}
utf8Len(c) == IF c \in TwoByteChars THEN 2 ELSE 1

RECURSIVE len(_)
len(pw) == IF pw = <<>> THEN 0 ELSE utf8Len(Head(pw)) + len(Tail(pw))

hasUpperCase(pw) == \E i \in 1..Len(pw) : pw[i] \in UpperChars
hasLowerCase(pw) == \E i \in 1..Len(pw) : pw[i] \in LowerChars
hasDigit(pw) == \E i \in 1..Len(pw) : pw[i] \in DigitChars

ToLowerChar(c) ==
    IF c \in UpperChars
    THEN CHOOSE l \in LowerChars :
           \E k \in 1..26 :
             /\ <<"A","B","C","D","E","F","G","H","I","J","K","L","M",
                  "N","O","P","Q","R","S","T","U","V","W","X","Y","Z">>[k] = c
             /\ <<"a","b","c","d","e","f","g","h","i","j","k","l","m",
                  "n","o","p","q","r","s","t","u","v","w","x","y","z">>[k] = l
    ELSE c
ToLower(pw) == [i \in 1..Len(pw) |-> ToLowerChar(pw[i])]

commonPasswords ==
    { <<"p","a","s","s","w","o","r","d">>, <<"1","2","3","4","5","6">>,
      <<"1","2","3","4","5","6","7","8","9">>, <<"q","w","e","r","t","y">>,
      <<"a","b","c","1","2","3">>,
      <<"p","a","s","s","w","o","r","d","1","2","3">>, <<"a","d","m","i","n">>,
      <<"l","e","t","m","e","i","n">>, <<"w","e","l","c","o","m","e">>,
      <<"m","o","n","k","e","y">>,
      <<"1","2","3","4","5","6","7","8","9","0">>,
      <<"p","a","s","s","w","o","r","d","1">>,
      <<"q","w","e","r","t","y","1","2","3">>, <<"d","r","a","g","o","n">>,
      <<"m","a","s","t","e","r">>,
      <<"h","e","l","l","o">>, <<"f","r","e","e","d","o","m">>,
      <<"w","h","a","t","e","v","e","r">>, <<"q","a","z","w","s","x">>,
      <<"t","r","u","s","t","n","o","1">> }

isCommonPassword(pw) == ToLower(pw) \in commonPasswords

(* A policy that accepts every password: the properties of the strength  *)
(* policy must tell it from ValidatePassword.                            *)
ValidatePasswordAny(pw) == "ok"

(* A policy that looks the denylist up before the other rules *)
ValidatePasswordDenylistFirst(pw) ==
    IF isCommonPassword(pw)
    THEN "password is too common, please choose a stronger password"
    ELSE IF len(pw) < minLength THEN "password must be at least 8 characters long"
    ELSE IF ~hasUpperCase(pw) THEN "password must contain at least one uppercase letter"
    ELSE IF ~hasLowerCase(pw) THEN "password must contain at least one lowercase letter"
    ELSE IF ~hasDigit(pw) THEN "password must contain at least one digit"
    ELSE "ok"

(* ValidatePassword: "ok", or the first rule the password violates. *)
ValidatePassword(pw) ==
    IF len(pw) < minLength THEN "password must be at least 8 characters long"
    ELSE IF ~hasUpperCase(pw) THEN "password must contain at least one uppercase letter"
    ELSE IF ~hasLowerCase(pw) THEN "password must contain at least one lowercase letter"
    ELSE IF ~hasDigit(pw) THEN "password must contain at least one digit"
    ELSE IF isCommonPassword(pw) THEN "password is too common, please choose a stronger password"
    ELSE "ok"

(* bcrypt: the hash is a one-way image of the password. *)
HashPassword(pw) == [alg |-> "bcrypt", of |-> pw]
VerifyPassword(hashedPassword, pw) == hashedPassword.alg = "bcrypt" /\ hashedPassword.of = pw

-----------------------------------------------------------------------------
(* JWTService *)

(* The secrets of the configuration when the environment sets none *)
DefaultJWT ==
    [AccessSecret  |-> "your-access-secret-key-change-in-production",
     RefreshSecret |-> "your-refresh-secret-key-change-in-production"]

(* NewJWTService(config.JWT.AccessSecret, config.JWT.RefreshSecret) *)
accessSecret == config.AccessSecret
refreshSecret == config.RefreshSecret

(* A signed token: its claims and the secret it was signed with. *)
SignedToken(user_id, email, role, token_type, exp, secret) ==
    [user_id |-> user_id, email |-> email, role |-> role,
     token_type |-> token_type, exp |-> exp, key |-> secret]

(* The claims a parsed token carries *)
Claims(tok) ==
    [user_id |-> tok.user_id, email |-> tok.email, role |-> tok.role,
     token_type |-> tok.token_type]

(* The pair a JWT service with the secrets aSecret, rSecret signs for    *)
(* the row `user` with id `id` at time t.                                *)
(* expires_at: the expiry handed to the client beside the tokens.        *)
SignPair(id, user, t, aSecret, rSecret) ==
    [access  |-> SignedToken(id, user.email, user.role, "access",
                             t + accessExpiry, aSecret),
     refresh |-> SignedToken(id, user.email, user.role, "refresh",
                             t + refreshExpiry, rSecret),
     expires_at |-> t + accessExpiry]

(* A service that signs both tokens with the access secret: the         *)
(* properties of the token pair must tell it from GenerateTokenPair.     *)
GenerateTokenPairOneSecret(id, user, t) ==
    SignPair(id, user, t, accessSecret, accessSecret)

(* GenerateTokenPair for the row `user` with id `id` at time t. *)
GenerateTokenPair(id, user, t) == SignPair(id, user, t, accessSecret, refreshSecret)

(* jwt.ParseWithClaims: the signature is verified with the secret, then  *)
(* the registered claims: the token must not have reached its exp.       *)
ParseWithClaims(tok, secret, t) == tok.key = secret /\ t < tok.exp

(* A validation without the check of the discriminator: the properties  *)
(* of the token kinds must tell it from validateToken.                   *)
validateTokenAnyType(tok, secret, expectedType, t) ==
    IF ~ParseWithClaims(tok, secret, t) THEN "failed to parse token" ELSE "ok"

(* validateToken: "ok", or the error. *)
validateToken(tok, secret, expectedType, t) ==
    IF ~ParseWithClaims(tok, secret, t) THEN "failed to parse token"
    ELSE IF tok.exp < t THEN "token has expired"
    ELSE IF tok.token_type # expectedType THEN "invalid token type"
    ELSE "ok"

ValidateAccessToken(tok, t) == validateToken(tok, accessSecret, "access", t)
ValidateRefreshToken(tok, t) == validateToken(tok, refreshSecret, "refresh", t)

(* An access token minted with the lifetime of a refresh token, and one  *)
(* minted from the stored account instead of the claims: the properties  *)
(* of the refreshed token must tell them from RefreshAccessToken.        *)
RefreshAccessTokenLong(tok, t) ==
    SignedToken(tok.user_id, tok.email, tok.role, "access", t + refreshExpiry, accessSecret)
RefreshAccessTokenFromStore(tok, t) ==
    SignedToken(tok.user_id, users[tok.user_id].email, users[tok.user_id].role,
                "access", t + accessExpiry, accessSecret)

(* RefreshAccessToken: the access token minted at time t from the claims *)
(* of the refresh token tok.                                             *)
RefreshAccessToken(tok, t) ==
    SignedToken(tok.user_id, tok.email, tok.role, "access", t + accessExpiry, accessSecret)

-----------------------------------------------------------------------------
(* The users table.  email and username are UNIQUE NOT NULL; password (the *)
(* legacy column) and password_hash are nullable.  The timestamp columns   *)
(* and users.verification_token are written but never read by a handler    *)
(* and are left out of the rows.                                           *)

UserIds == DOMAIN users

userExistsByEmail(email) == \E i \in UserIds : users[i].email = email
userExistsByUsername(username) == \E i \in UserIds : users[i].username = username

(* A users table without UNIQUE constraints: the property of uniqueness  *)
(* must tell it from UsersUniqueOk.                                      *)
NoUniqueConstraint(id, email, username) == TRUE

(* The UNIQUE constraints of the users table, for a row written at id    *)
(* `id` (0: a new row).                                                   *)
UsersUniqueOk(id, email, username) ==
    \A i \in UserIds \ {id} : users[i].email # email /\ users[i].username # username

(* SELECT ... FROM users WHERE email = $1: the ids of the matching rows. *)
IdsByEmail(email) == {i \in UserIds : users[i].email = email}
IdsByUsername(username) == {i \in UserIds : users[i].username = username}

(* AuthService.getUserByEmail / getUserByID scan password_hash into a    *)
(* string: a NULL there is a scan error.                                 *)
AuthScanOk(row) == ~IsNull(row.password_hash)
(* userRepository.GetByID / GetByEmail / GetByUsername scan password.    *)
RepoScanOk(row) == ~IsNull(row.password)

(* User.ToResponse *)
ToResponse(id, row) ==
    [id |-> id, email |-> row.email, username |-> row.username,
     role |-> row.role, status |-> row.status,
     email_verified |-> row.email_verified]

(* A role check that still admits the legacy role buyer *)
isValidRoleLegacy(role) ==
    role \in {UserRoleAdmin, UserRoleModerator, UserRoleProducer,
              UserRoleArtist, UserRoleFan, UserRoleBuyer}

isValidRole(role) ==
    role \in {UserRoleAdmin, UserRoleModerator, UserRoleProducer,
              UserRoleArtist, UserRoleFan}

-----------------------------------------------------------------------------
(* The token tables: token is UNIQUE in each. *)

TokenRow(user_id, token, expires_at) ==
    [user_id |-> user_id, token |-> token, expires_at |-> expires_at,
     used_at |-> Null]

(* The token generator.  randomInt reads the clock (nanoseconds) and     *)
(* reduces it modulo max; generateRandomString draws every character of  *)
(* the string that way, nanos[i] being the reading for character i.      *)
charset ==
    <<"a","b","c","d","e","f","g","h","i","j","k","l","m",
      "n","o","p","q","r","s","t","u","v","w","x","y","z",
      "A","B","C","D","E","F","G","H","I","J","K","L","M",
      "N","O","P","Q","R","S","T","U","V","W","X","Y","Z",
      "0","1","2","3","4","5","6","7","8","9">>

randomInt(max, nano) == nano % max

generateRandomString(length, nanos) ==
    [i \in 1..length |-> charset[randomInt(Len(charset), nanos[i]) + 1]]

(* INSERT fails on a token string the table already holds. *)
TokenInsertOk(table, token) == \A r \in table : r.token # token

(* A store whose tokens never expire, and a lookup that also returns     *)
(* the rows already used: the properties of expiry and of single use     *)
(* must tell them from tokenExpired and UnusedRows.                      *)
tokenNeverExpired(t, expiresAt) == FALSE
RowsUsedOrNot(table, token) == {r \in table : r.token = token}

(* time.Now().After(expiresAt) *)
tokenExpired(t, expiresAt) == t > expiresAt

(* getVerificationUserID / getResetTokenUserID: the unused rows holding  *)
(* the token, and the outcome of the lookup at time t.                   *)
UnusedRows(table, token) == {r \in table : r.token = token /\ IsNull(r.used_at)}
getTokenUserID(table, token, t) ==
    IF UnusedRows(table, token) = {} THEN [err |-> "sql: no rows in result set", user_id |-> 0]
    ELSE LET r == CHOOSE x \in UnusedRows(table, token) : TRUE
         IN  IF tokenExpired(t, r.expires_at)
             THEN [err |-> "token expired", user_id |-> 0]
             ELSE [err |-> "ok", user_id |-> r.user_id]

(* An UPDATE without the WHERE clause, which marks every row: the        *)
(* properties of outstanding tokens must tell it from markTokenUsed.     *)
markEveryToken(table, token, t) == {[r EXCEPT !.used_at = Some(t)] : r \in table}

(* markVerificationTokenUsed / markResetTokenUsed: every row holding the *)
(* token gets the time.                                                  *)
markTokenUsed(table, token, t) ==
    {IF r.token = token THEN [r EXCEPT !.used_at = Some(t)] ELSE r : r \in table}

(* An UPDATE the database never refuses: the properties of a failed mark *)
(* must tell it from execMarkTokenUsed.                                  *)
markNeverFails(table, token, t, dbOk) == markTokenUsed(table, token, t)

(* The table after the UPDATE of markVerificationTokenUsed /             *)
(* markResetTokenUsed, which the database carries out (dbOk) or refuses  *)
(* with an error.                                                        *)
execMarkTokenUsed(table, token, t, dbOk) ==
    IF dbOk THEN markTokenUsed(table, token, t) ELSE table

-----------------------------------------------------------------------------
(* The HTTP exchange: what the last request was and what it was answered. *)

(* op: the route; code, err: the HTTP status and the error of the service  *)
(* ("ok": none); user: the account view in the body (NULL: none); bearer:  *)
(* the token pair in the body, or the pair whose token the request         *)
(* presented (NULL: none); notified: what became of the notification.      *)
Response(op, code, err, user, bearer, notified) ==
    [op |-> op, code |-> code, err |-> err, user |-> user,
     bearer |-> bearer, notified |-> notified]

NoResponse == Response("none", 0, "ok", Null, Null, "none")

Notified(sendOk) == IF sendOk THEN "sent" ELSE "failed"

(* A transport whose failure is returned by every caller, and one whose  *)
(* failure is logged by every caller: the properties of a failed         *)
(* notification must tell them from registerSendErr and forgotSendErr.   *)
sendErrReturned(sendOk) == IF sendOk THEN "ok" ELSE "failed to send verification email"
sendErrLogged(sendOk) == "ok"

(* What RegisterUser returns for the outcome of SendVerificationEmail:   *)
(* the error is logged and the registration goes on.                     *)
registerSendErr(sendOk) == "ok"

(* What ForgotPassword returns for the outcome of SendPasswordResetEmail *)
forgotSendErr(sendOk) == IF sendOk THEN "ok" ELSE "failed to send reset email"

(* A registration that stores the row already verified: the properties   *)
(* of the verification flow must tell it from NewAuthUser.               *)
NewAuthUserVerified(email, username, pw, role) ==
    [email |-> email, username |-> username, first_name |-> "Test",
     last_name |-> "User", password |-> Null,
     password_hash |-> Some(HashPassword(pw)),
     role |-> role, status |-> UserStatusActive, email_verified |-> TRUE]

NewAuthUser(email, username, pw, role) ==
    [email |-> email, username |-> username,
     first_name |-> "Test", last_name |-> "User",
     password |-> Null, password_hash |-> Some(HashPassword(pw)),
     role |-> role, status |-> UserStatusActive, email_verified |-> FALSE]

(* models.User built by UserService.CreateUser and stored by             *)
(* userRepository.Create: the password goes to the legacy column as it   *)
(* is, password_hash and email_verified take the column defaults.        *)
NewRepoUser(email, username, pw, role) ==
    [email |-> email, username |-> username,
     first_name |-> "Test", last_name |-> "User",
     password |-> Some(pw), password_hash |-> Null,
     role |-> role, status |-> UserStatusActive, email_verified |-> FALSE]

-----------------------------------------------------------------------------
(* POST /auth/register: AuthHandlers.Register and AuthService.RegisterUser *)

(* The checks in the other order: the properties of the conflict errors  *)
(* must tell it from RegisterUserErr.                                    *)
RegisterUserErrUsernameFirst(email, username, pw) ==
    IF userExistsByUsername(username) THEN "username already taken"
    ELSE IF userExistsByEmail(email) THEN "user with this email already exists"
    ELSE IF ValidatePassword(pw) # "ok" THEN "failed to hash password"
    ELSE "ok"

(* The checks of RegisterUser before the insert. *)
RegisterUserErr(email, username, pw) ==
    IF userExistsByEmail(email) THEN "user with this email already exists"
    ELSE IF userExistsByUsername(username) THEN "username already taken"
    ELSE IF ValidatePassword(pw) # "ok" THEN "failed to hash password"
    ELSE "ok"

(* ShouldBindJSON on models.CreateUserRequest: password min=8, role oneof *)
BindCreateUserRequest(pw, role) ==
    /\ Len(pw) >= bindingMinPassword
    /\ role \in {UserRoleAdmin, UserRoleArtist, UserRoleBuyer, UserRoleModerator,
                 UserRoleProducer, UserRoleFan}

insertUserErr(email, username) ==
    IF UsersUniqueOk(0, email, username) THEN "ok" ELSE "failed to create user"

Register(email, username, pw, role, tok, sendOk) ==
    LET pre == IF ~BindCreateUserRequest(pw, role) THEN "INVALID_REQUEST"
               ELSE IF ~isValidRole(role) THEN "INVALID_ROLE"
               ELSE IF RegisterUserErr(email, username, pw) # "ok"
                    THEN RegisterUserErr(email, username, pw)
               ELSE insertUserErr(email, username)
        row == NewAuthUser(email, username, pw, role)
        id  == Len(users) + 1
    IN  /\ IF pre # "ok"
           THEN /\ resp' = Response("register", 400, pre, Null, Null, "none")
                /\ UNCHANGED <<users, email_verifications, registered>>
           ELSE /\ users' = Append(users, row)
                /\ registered' = registered \cup {email}
                /\ IF TokenInsertOk(email_verifications, tok)
                   THEN /\ email_verifications' = email_verifications \cup
                               {TokenRow(id, tok, now + VerificationExpiry)}
                        /\ resp' = IF registerSendErr(sendOk) # "ok"
                                   THEN Response("register", 400, registerSendErr(sendOk),
                                            Null, Null, Notified(sendOk))
                                   ELSE Response("register", 201, "ok",
                                            Some(ToResponse(id, row)),
                                            Some(GenerateTokenPair(id, row, now)),
                                            Notified(sendOk))
                   ELSE /\ resp' = Response("register", 400,
                                       "failed to store verification token",
                                       Null, Null, "none")
                        /\ UNCHANGED email_verifications
        /\ UNCHANGED <<password_resets, now, ticks, config, reqs>>

-----------------------------------------------------------------------------
(* POST /auth/login: AuthHandlers.Login and AuthService.LoginUser *)

(* A login gate without the email check: the properties of the gate must *)
(* tell it from LoginGate.                                               *)
LoginGateUnverified(row, pw) ==
    IF row.status # UserStatusActive THEN "account is not active"
    ELSE IF ~VerifyPassword(Val(row.password_hash), pw) THEN "invalid email or password"
    ELSE "ok"

(* The checks of LoginUser on the row it has read. *)
LoginGate(row, pw) ==
    IF row.status # UserStatusActive THEN "account is not active"
    ELSE IF ~VerifyPassword(Val(row.password_hash), pw) THEN "invalid email or password"
    ELSE IF ~row.email_verified THEN "please verify your email before logging in"
    ELSE "ok"

LoginUserErr(email, pw) ==
    IF IdsByEmail(email) = {} THEN "invalid email or password"
    ELSE LET row == users[CHOOSE i \in IdsByEmail(email) : TRUE]
         IN  IF ~AuthScanOk(row) THEN "failed to get user" ELSE LoginGate(row, pw)

Login(email, pw) ==
    LET err == LoginUserErr(email, pw)
        id  == CHOOSE i \in IdsByEmail(email) : TRUE
    IN  /\ IF err # "ok"
           THEN resp' = Response("login", 401, err, Null, Null, "none")
           ELSE resp' = Response("login", 200, "ok", Some(ToResponse(id, users[id])),
                            Some(GenerateTokenPair(id, users[id], now)), "none")
        /\ UNCHANGED <<users, email_verifications, password_resets, now, ticks, config, reqs, registered>>

-----------------------------------------------------------------------------
(* GET /auth/verify: AuthHandlers.VerifyEmail and AuthService.VerifyEmail *)

updateEmailVerification(tbl, userID, verified) ==
    [i \in DOMAIN tbl |-> IF i = userID THEN [tbl[i] EXCEPT !.email_verified = verified]
                          ELSE tbl[i]]

(* markOk: whether the UPDATE that marks the token used is carried out;  *)
(* its error is logged and the verification goes on.                     *)
VerifyEmailWith(token, markOk) ==
    LET got == getTokenUserID(email_verifications, token, now)
        upd == updateEmailVerification(users, got.user_id, TRUE)
    IN  /\ IF got.err # "ok"
           THEN /\ resp' = Response("verify", 400, "invalid or expired verification token",
                               Null, Null, "none")
                /\ UNCHANGED <<users, email_verifications>>
           ELSE /\ users' = upd
                /\ email_verifications' =
                       execMarkTokenUsed(email_verifications, token, now, markOk)
                /\ IF got.user_id \in UserIds /\ AuthScanOk(upd[got.user_id])
                   THEN resp' = Response("verify", 200, "ok",
                                    Some(ToResponse(got.user_id, upd[got.user_id])),
                                    Null, "sent")
                   ELSE resp' = Response("verify", 400, "failed to get user",
                                    Null, Null, "none")
        /\ UNCHANGED <<password_resets, now, ticks, config, reqs, registered>>

(* The verification when every statement is carried out *)
VerifyEmail(token) == VerifyEmailWith(token, TRUE)

-----------------------------------------------------------------------------
(* POST /auth/forgot-password and POST /auth/reset-password *)

ForgotPassword(email, tok, sendOk) ==
    LET ids == IdsByEmail(email)
        id  == CHOOSE i \in ids : TRUE
    IN  /\ IF ids = {}
           THEN /\ resp' = Response("forgot", 200, "ok", Null, Null, "none")
                /\ UNCHANGED password_resets
           ELSE IF ~AuthScanOk(users[id])
           THEN /\ resp' = Response("forgot", 500, "failed to get user", Null, Null, "none")
                /\ UNCHANGED password_resets
           ELSE IF ~TokenInsertOk(password_resets, tok)
           THEN /\ resp' = Response("forgot", 500, "failed to store reset token",
                               Null, Null, "none")
                /\ UNCHANGED password_resets
           ELSE /\ password_resets' = password_resets \cup
                       {TokenRow(id, tok, now + ResetExpiry)}
                /\ resp' = IF forgotSendErr(sendOk) = "ok"
                           THEN Response("forgot", 200, "ok", Null, Null, Notified(sendOk))
                           ELSE Response("forgot", 500, forgotSendErr(sendOk),
                                    Null, Null, Notified(sendOk))
        /\ UNCHANGED <<users, email_verifications, now, ticks, config, reqs, registered>>

(* An UPDATE that writes nothing: the properties of the reset must tell  *)
(* it from updatePassword.                                               *)
updatePasswordNoop(tbl, userID, hashedPassword) == tbl

(* An UPDATE without the WHERE clause, which writes the hash to every   *)
(* account: the frame of the reset must tell it from updatePassword.     *)
updatePasswordEveryone(tbl, userID, hashedPassword) ==
    [i \in DOMAIN tbl |-> [tbl[i] EXCEPT !.password_hash = Some(hashedPassword)]]

updatePassword(tbl, userID, hashedPassword) ==
    [i \in DOMAIN tbl |-> IF i = userID
                          THEN [tbl[i] EXCEPT !.password_hash = Some(hashedPassword)]
                          ELSE tbl[i]]

(* markOk: whether the UPDATE that marks the token used is carried out;  *)
(* its error is logged and the reset reports success.                    *)
ResetPasswordWith(token, pw, markOk) ==
    LET got == getTokenUserID(password_resets, token, now)
    IN  /\ IF Len(pw) < bindingMinPassword
           THEN /\ resp' = Response("reset", 400, "INVALID_REQUEST", Null, Null, "none")
                /\ UNCHANGED <<users, password_resets>>
           ELSE IF got.err # "ok"
           THEN /\ resp' = Response("reset", 400, "invalid or expired reset token",
                               Null, Null, "none")
                /\ UNCHANGED <<users, password_resets>>
           ELSE IF ValidatePassword(pw) # "ok"
           THEN /\ resp' = Response("reset", 400, "failed to hash password",
                               Null, Null, "none")
                /\ UNCHANGED <<users, password_resets>>
           ELSE /\ users' = updatePassword(users, got.user_id, HashPassword(pw))
                /\ password_resets' = execMarkTokenUsed(password_resets, token, now, markOk)
                /\ resp' = Response("reset", 200, "ok", Null, Null, "none")
        /\ UNCHANGED <<email_verifications, now, ticks, config, reqs, registered>>

(* The reset when every statement is carried out *)
ResetPassword(token, pw) == ResetPasswordWith(token, pw, TRUE)

-----------------------------------------------------------------------------
(* The protected routes: JWTMiddleware, then the handler.  The client    *)
(* presents a token of the pair of the exchange before.                  *)

Bearer(which) ==
    IF which = "access" THEN Val(resp.bearer).access ELSE Val(resp.bearer).refresh

(* A middleware that looks the account up and refuses a token whose      *)
(* account is not active: the tokens would be revocable.                 *)
JWTMiddlewareActive(tok, t) ==
    IF ValidateAccessToken(tok, t) # "ok" THEN ValidateAccessToken(tok, t)
    ELSE IF tok.user_id \in DOMAIN users /\ users[tok.user_id].status # UserStatusActive
    THEN "account is not active"
    ELSE "ok"

JWTMiddleware(tok, t) == ValidateAccessToken(tok, t)

(* The Authorization header of a request: absent (NULL), or a scheme     *)
(* ("" when the header starts with the credentials) and the credentials  *)
(* (NULL when nothing follows the scheme).                               *)
AuthorizationHeader(scheme, credentials) ==
    Some([scheme |-> scheme, credentials |-> credentials])

(* strings.TrimPrefix(authHeader, "Bearer "): the comparison is exact. *)
TrimPrefixBearer(h) == IF h.scheme = "Bearer " THEN [h EXCEPT !.scheme = ""] ELSE h

(* The values JWTMiddleware sets in the request context *)
RequestContext(claims) ==
    [user_id |-> claims.user_id, user_email |-> claims.email, user_role |-> claims.role]

MiddlewareResult(code, err, context) == [code |-> code, err |-> err, context |-> context]

(* A middleware that trims whatever scheme the header names: the         *)
(* properties of the protected routes must tell it from                  *)
(* JWTMiddlewareHeader.                                                  *)
JWTMiddlewareAnyScheme(authHeader, t) ==
    IF IsNull(authHeader)
    THEN MiddlewareResult(401, "Authorization header required", Null)
    ELSE IF IsNull(Val(authHeader).credentials)
    THEN MiddlewareResult(401, "failed to parse token", Null)
    ELSE IF JWTMiddleware(Val(Val(authHeader).credentials), t) # "ok"
    THEN MiddlewareResult(401, JWTMiddleware(Val(Val(authHeader).credentials), t), Null)
    ELSE MiddlewareResult(200, "ok",
             Some(RequestContext(Claims(Val(Val(authHeader).credentials)))))

(* JWTMiddleware from the header on: 401 and the request aborted, or 200 *)
(* and the context the handler receives.                                 *)
JWTMiddlewareHeader(authHeader, t) ==
    IF IsNull(authHeader)
    THEN MiddlewareResult(401, "Authorization header required", Null)
    ELSE IF TrimPrefixBearer(Val(authHeader)) = Val(authHeader)
    THEN MiddlewareResult(401, "Authorization header must start with 'Bearer '", Null)
    ELSE IF IsNull(Val(authHeader).credentials)
    THEN MiddlewareResult(401, "failed to parse token", Null)
    ELSE IF JWTMiddleware(Val(Val(authHeader).credentials), t) # "ok"
    THEN MiddlewareResult(401, JWTMiddleware(Val(Val(authHeader).credentials), t), Null)
    ELSE MiddlewareResult(200, "ok",
             Some(RequestContext(Claims(Val(Val(authHeader).credentials)))))

(* AuthService.getUserByID for the handlers of /auth/profile *)
getUserByIDErr(id) ==
    IF id \notin UserIds THEN "sql: no rows in result set"
    ELSE IF ~AuthScanOk(users[id]) THEN "sql: Scan error"
    ELSE "ok"

GetProfile(which) ==
    LET tok == Bearer(which)
    IN  /\ ~IsNull(resp.bearer)
        /\ IF JWTMiddleware(tok, now) # "ok"
           THEN resp' = Response("profile", 401, JWTMiddleware(tok, now),
                            Null, resp.bearer, "none")
           ELSE IF getUserByIDErr(tok.user_id) # "ok"
           THEN resp' = Response("profile", 404, "User not found", Null,
                            resp.bearer, "none")
           ELSE resp' = Response("profile", 200, "ok",
                            Some(ToResponse(tok.user_id, users[tok.user_id])),
                            resp.bearer, "none")
        /\ UNCHANGED <<users, email_verifications, password_resets, now, ticks, config, reqs, registered>>

(* The header a client holding a token pair sends: none ("missing"),     *)
(* the scheme alone ("none"), or the scheme and a token of the pair.     *)
HeaderOf(scheme, which) ==
    IF which = "missing" THEN Null
    ELSE IF which = "none" THEN AuthorizationHeader(scheme, Null)
    ELSE AuthorizationHeader(scheme, Some(Bearer(which)))

(* GET /auth/profile with the header: JWTMiddleware, then the handler    *)
(* with the user_id of the context.                                      *)
GetProfileRequest(scheme, which) ==
    LET mw == JWTMiddlewareHeader(HeaderOf(scheme, which), now)
    IN  /\ ~IsNull(resp.bearer)
        /\ IF mw.code # 200
           THEN resp' = Response("profile_request", mw.code, mw.err, Null,
                            resp.bearer, "none")
           ELSE IF getUserByIDErr(Val(mw.context).user_id) # "ok"
           THEN resp' = Response("profile_request", 404, "User not found", Null,
                            resp.bearer, "none")
           ELSE resp' = Response("profile_request", 200, "ok",
                            Some(ToResponse(Val(mw.context).user_id,
                                            users[Val(mw.context).user_id])),
                            resp.bearer, "none")
        /\ UNCHANGED <<users, email_verifications, password_resets, now, ticks, config, reqs, registered>>

-----------------------------------------------------------------------------
(* POST /auth/refresh: AuthHandlers.RefreshToken and AuthService.RefreshToken. *)
(* The client presents a token of the pair of the exchange before.       *)

(* A refresh that issues a new refresh token, one that does not look at  *)
(* the status and one that wants a verified email: the properties of the *)
(* refresh must tell them from keptRefreshToken and RefreshTokenErr.     *)
rotatedRefreshToken(tok, t) == [tok EXCEPT !.exp = t + refreshExpiry]
RefreshTokenErrAnyStatus(tok) ==
    IF ValidateRefreshToken(tok, now) # "ok" THEN "invalid refresh token"
    ELSE IF getUserByIDErr(tok.user_id) # "ok" THEN "failed to get user"
    ELSE "ok"
RefreshTokenErrVerified(tok) ==
    IF ValidateRefreshToken(tok, now) # "ok" THEN "invalid refresh token"
    ELSE IF getUserByIDErr(tok.user_id) # "ok" THEN "failed to get user"
    ELSE IF users[tok.user_id].status # UserStatusActive THEN "account is not active"
    ELSE IF ~users[tok.user_id].email_verified THEN "email not verified"
    ELSE "ok"

(* The refresh token of the response: the one presented *)
keptRefreshToken(tok, t) == tok

(* The checks of RefreshToken before the access token is minted *)
RefreshTokenErr(tok) ==
    IF ValidateRefreshToken(tok, now) # "ok" THEN "invalid refresh token"
    ELSE IF getUserByIDErr(tok.user_id) # "ok" THEN "failed to get user"
    ELSE IF users[tok.user_id].status # UserStatusActive THEN "account is not active"
    ELSE "ok"

RefreshToken(which) ==
    LET tok == Bearer(which)
        err == RefreshTokenErr(tok)
    IN  /\ ~IsNull(resp.bearer)
        /\ IF err # "ok"
           THEN resp' = Response("refresh", 401, err, Null, resp.bearer, "none")
           ELSE resp' = Response("refresh", 200, "ok",
                            Some(ToResponse(tok.user_id, users[tok.user_id])),
                            Some([access     |-> RefreshAccessToken(tok, now),
                                  refresh    |-> keptRefreshToken(tok, now),
                                  expires_at |-> now + accessExpiry]),
                            "none")
        /\ UNCHANGED <<users, email_verifications, password_resets, now, ticks, config, reqs,
                       registered>>

(* POST /auth/logout, behind JWTMiddleware: the handler answers and      *)
(* touches nothing.                                                      *)
Logout ==
    LET tok == Bearer("access")
    IN  /\ ~IsNull(resp.bearer)
        /\ IF JWTMiddleware(tok, now) # "ok"
           THEN resp' = Response("logout", 401, JWTMiddleware(tok, now),
                            Null, resp.bearer, "none")
           ELSE resp' = Response("logout", 200, "ok", Null, resp.bearer, "none")
        /\ UNCHANGED <<users, email_verifications, password_resets, now, ticks, config, reqs,
                       registered>>

(* models.UpdateUserRequest: every field is optional (NULL: absent). *)
UpdateRequest(email, username, role, status) ==
    [email |-> email, username |-> username, first_name |-> Null,
     last_name |-> Null, role |-> role, status |-> status]

Nullable(S) == {Null} \cup {Some(v) : v \in S}

UpdateRequests ==
    {UpdateRequest(e, u, Null, Null) : e \in Nullable(Emails), u \in Nullable(Usernames)}

HasUpdates(req) ==
    \E f \in {"email", "username", "first_name", "last_name", "role", "status"} :
        ~IsNull(req[f])

(* The row after UPDATE users SET <the fields present> *)
(* An update that takes the verification back when the email changes *)
ApplyUpdateUnverify(row, req) ==
    [f \in DOMAIN row |->
        IF f \in DOMAIN req /\ ~IsNull(req[f]) THEN Val(req[f])
        ELSE IF f = "email_verified" /\ ~IsNull(req.email) THEN FALSE
        ELSE row[f]]

ApplyUpdate(row, req) ==
    [f \in DOMAIN row |->
        IF f \in DOMAIN req /\ ~IsNull(req[f]) THEN Val(req[f]) ELSE row[f]]

(* AuthService.updateUserProfile: "ok" or the error of the UPDATE *)
updateUserProfileErr(userID, req) ==
    IF ~HasUpdates(req) \/ userID \notin UserIds THEN "ok"
    ELSE LET new == ApplyUpdate(users[userID], req)
         IN  IF UsersUniqueOk(userID, new.email, new.username) THEN "ok"
             ELSE "pq: duplicate key value violates unique constraint"

(* The column updated_at is kept in the rows of the specifications that  *)
(* observe it.  The UPDATE of updateUserProfile sets it with the fields, *)
(* and is not executed for a request without fields.                     *)
touchUpdatedAt(row, req, t) ==
    IF "updated_at" \in DOMAIN row /\ HasUpdates(req)
    THEN [row EXCEPT !.updated_at = t] ELSE row

updateUserProfile(userID, req) ==
    IF userID \in UserIds /\ updateUserProfileErr(userID, req) = "ok"
    THEN [users EXCEPT ![userID] =
              touchUpdatedAt(ApplyUpdate(users[userID], req), req, now)]
    ELSE users

UpdateProfile(req) ==
    LET tok == Bearer("access")
        uid == tok.user_id
        upd == updateUserProfile(uid, req)
    IN  /\ ~IsNull(resp.bearer)
        /\ IF JWTMiddleware(tok, now) # "ok"
           THEN /\ resp' = Response("update_profile", 401, JWTMiddleware(tok, now),
                               Null, resp.bearer, "none")
                /\ UNCHANGED users
           ELSE IF updateUserProfileErr(uid, req) # "ok"
           THEN /\ resp' = Response("update_profile", 500, "PROFILE_UPDATE_FAILED",
                               Null, resp.bearer, "none")
                /\ UNCHANGED users
           ELSE /\ users' = upd
                /\ IF getUserByIDErr(uid) # "ok"
                   THEN resp' = Response("update_profile", 500,
                                    "PROFILE_RETRIEVAL_FAILED", Null, resp.bearer, "none")
                   ELSE resp' = Response("update_profile", 200, "ok",
                                    Some(ToResponse(uid, upd[uid])), resp.bearer, "none")
        /\ UNCHANGED <<email_verifications, password_resets, now, ticks, config, reqs, registered>>

-----------------------------------------------------------------------------
(* The JWT service on its own: a pair is issued for an account, or a     *)
(* pair signed by a service with other secrets is presented, and a token *)
(* of the pair is handed to ValidateAccessToken or ValidateRefreshToken. *)
(* The exchange records the pair in bearer and, for a validation, the    *)
(* claims returned in user.                                              *)

IssueTokenPair(id) ==
    /\ id \in UserIds
    /\ resp' = Response("issue", 200, "ok", Some(ToResponse(id, users[id])),
                    Some(GenerateTokenPair(id, users[id], now)), "none")
    /\ UNCHANGED <<users, email_verifications, password_resets, now, ticks, config, reqs,
                   registered>>

ForeignTokenPair(id, aSecret, rSecret) ==
    /\ id \in UserIds
    /\ aSecret # accessSecret /\ rSecret # refreshSecret
    /\ resp' = Response("foreign", 200, "ok", Some(ToResponse(id, users[id])),
                    Some(SignPair(id, users[id], now, aSecret, rSecret)), "none")
    /\ UNCHANGED <<users, email_verifications, password_resets, now, ticks, config, reqs,
                   registered>>

(* A pair for an id the store does not hold, signed with the secrets of  *)
(* the service: the secrets of the default configuration are in the      *)
(* source, and a store may be restored to an earlier state.              *)
StaleTokenPair(id, email, username) ==
    /\ id \notin UserIds
    /\ resp' = Response("stale", 200, "ok", Null,
                    Some(GenerateTokenPair(id, NewAuthUser(email, username, Passw0rd,
                                                          UserRoleFan), now)),
                    "none")
    /\ UNCHANGED <<users, email_verifications, password_resets, now, ticks, config, reqs,
                   registered>>

ValidateToken(kind, which) ==
    LET tok == Bearer(which)
        err == IF kind = "access" THEN ValidateAccessToken(tok, now)
               ELSE ValidateRefreshToken(tok, now)
    IN  /\ ~IsNull(resp.bearer)
        /\ resp' = Response(IF kind = "access" THEN "validate_access"
                            ELSE "validate_refresh",
                            IF err = "ok" THEN 200 ELSE 401, err,
                            IF err = "ok" THEN Some(Claims(tok)) ELSE Null,
                            resp.bearer, "none")
        /\ UNCHANGED <<users, email_verifications, password_resets, now, ticks, config, reqs,
                       registered>>

-----------------------------------------------------------------------------
(* The clock *)

(* PasswordService.HashPassword called with pw: the error of            *)
(* ValidatePassword and no hash, or the hash.                            *)
HashPasswordCall(pw) ==
    /\ resp' = IF ValidatePassword(pw) # "ok"
               THEN Response("hash", 0, ValidatePassword(pw), Null, Null, "none")
               ELSE Response("hash", 0, "ok", Some(HashPassword(pw)), Null, "none")
    /\ UNCHANGED <<users, email_verifications, password_resets, now, ticks, config, reqs,
                   registered>>

Tick(d) ==
    /\ ticks < MaxTicks
    /\ now' = now + d
    /\ ticks' = ticks + 1
    /\ UNCHANGED <<users, email_verifications, password_resets, resp, reqs, registered,
                   config>>

(* The clock of the specifications that follow a session to the expiry  *)
(* of its tokens                                                         *)
SessionTick(d) ==
    /\ ticks < MaxSessionTicks
    /\ now' = now + d
    /\ ticks' = ticks + 1
    /\ UNCHANGED <<users, email_verifications, password_resets, resp, reqs, registered,
                   config>>

-----------------------------------------------------------------------------
(* Requests that run concurrently.  The handlers use no transaction, so  *)
(* a request in flight takes one step per database statement, and the    *)
(* steps of the requests in flight interleave.  reqs holds the requests  *)
(* in flight: the route, the statement to run next, the body, the id the *)
(* request has read or created, and the token pair it presented.         *)

Request(op, pc, id, q, bearer) ==
    [op |-> op, pc |-> pc, id |-> id, q |-> q, bearer |-> bearer]

Remove(s, i) == [j \in 1..(Len(s) - 1) |-> IF j < i THEN s[j] ELSE s[j + 1]]

(* The request i goes on to the statement pc / reads id / is answered. *)
GoTo(i, pc) == reqs' = [reqs EXCEPT ![i].pc = pc]
GoToWith(i, pc, id) == reqs' = [reqs EXCEPT ![i].pc = pc, ![i].id = id]
Answer(i, r) == reqs' = Remove(reqs, i) /\ resp' = r

Draft(email, username, pw, role) ==
    [email |-> email, username |-> username, pw |-> pw, role |-> role]

(* RegisterUser, statement by statement; the first one is the email check *)
RegisterBegin(email, username, pw, role) ==
    /\ Len(reqs) < MaxReqs
    /\ BindCreateUserRequest(pw, role) /\ isValidRole(role)
    /\ IF userExistsByEmail(email)
       THEN /\ resp' = Response("register", 400, "user with this email already exists",
                           Null, Null, "none")
            /\ UNCHANGED reqs
       ELSE /\ reqs' = Append(reqs, Request("register", "username", 0,
                                  Draft(email, username, pw, role), Null))
            /\ UNCHANGED resp
    /\ UNCHANGED <<users, email_verifications, password_resets, now, ticks, config, registered>>

RegisterStep(i, tok) ==
    LET r   == reqs[i]
        row == NewAuthUser(r.q.email, r.q.username, r.q.pw, r.q.role)
        bad(err) == Answer(i, Response("register", 400, err, Null, Null, "none"))
    IN  /\ i \in DOMAIN reqs /\ r.op = "register"
        /\ CASE r.pc = "username" ->
                  /\ IF userExistsByUsername(r.q.username)
                     THEN bad("username already taken")
                     ELSE GoTo(i, "insert") /\ UNCHANGED resp
                  /\ UNCHANGED <<users, email_verifications, registered>>
             [] r.pc = "insert" ->
                  /\ IF ValidatePassword(r.q.pw) # "ok"
                     THEN bad("failed to hash password")
                          /\ UNCHANGED <<users, registered>>
                     ELSE IF insertUserErr(r.q.email, r.q.username) # "ok"
                     THEN bad("failed to create user")
                          /\ UNCHANGED <<users, registered>>
                     ELSE /\ users' = Append(users, row)
                          /\ registered' = registered \cup {r.q.email}
                          /\ GoToWith(i, "token", Len(users) + 1)
                          /\ UNCHANGED resp
                  /\ UNCHANGED email_verifications
             [] r.pc = "token" ->
                  /\ IF TokenInsertOk(email_verifications, tok)
                     THEN /\ email_verifications' = email_verifications \cup
                                 {TokenRow(r.id, tok, now + VerificationExpiry)}
                          /\ Answer(i, Response("register", 201, "ok",
                                        Some(ToResponse(r.id, users[r.id])),
                                        Some(GenerateTokenPair(r.id, users[r.id], now)),
                                        "sent"))
                     ELSE /\ bad("failed to store verification token")
                          /\ UNCHANGED email_verifications
                  /\ UNCHANGED <<users, registered>>
        /\ UNCHANGED <<password_resets, now, ticks, config>>

(* userRepository.GetByID / GetByEmail / GetByUsername on the matching   *)
(* ids: the id found (0: no row, nil) or the scan error.                 *)
RepoLookup(ids) ==
    IF ids = {} THEN [err |-> "ok", id |-> 0]
    ELSE LET i == CHOOSE x \in ids : TRUE
         IN  IF RepoScanOk(users[i]) THEN [err |-> "ok", id |-> i]
             ELSE [err |-> "sql: Scan error", id |-> 0]

(* The /users routes are behind JWTMiddleware: the request presents the  *)
(* access token of the pair of the exchange before.                      *)
Authorized == ~IsNull(resp.bearer) /\ JWTMiddleware(Bearer("access"), now) = "ok"

(* UserController.CreateUser / UserService.CreateUser (POST /users),     *)
(* statement by statement; the first one is GetByEmail.                  *)
CreateUserBegin(email, username, pw, role) ==
    LET got == RepoLookup(IdsByEmail(email))
    IN  /\ Len(reqs) < MaxReqs
        /\ Authorized
        /\ IF got.err # "ok"
           THEN /\ resp' = Response("create_user", 500,
                               "failed to check existing user by email",
                               Null, resp.bearer, "none")
                /\ UNCHANGED reqs
           ELSE IF got.id # 0
           THEN /\ resp' = Response("create_user", 409, "user with email already exists",
                               Null, resp.bearer, "none")
                /\ UNCHANGED reqs
           ELSE /\ reqs' = Append(reqs, Request("create_user", "username", 0,
                                      Draft(email, username, pw, role), resp.bearer))
                /\ UNCHANGED resp
        /\ UNCHANGED <<users, email_verifications, password_resets, now, ticks, config, registered>>

CreateUserStep(i) ==
    LET r   == reqs[i]
        got == RepoLookup(IdsByUsername(r.q.username))
        row == NewRepoUser(r.q.email, r.q.username, r.q.pw, r.q.role)
        answer(code, err, user) ==
            Answer(i, Response("create_user", code, err, user, r.bearer, "none"))
    IN  /\ i \in DOMAIN reqs /\ r.op = "create_user"
        /\ CASE r.pc = "username" ->
                  /\ IF got.err # "ok"
                     THEN answer(500, "failed to check existing user by username", Null)
                     ELSE IF got.id # 0
                     THEN answer(409, "user with username already exists", Null)
                     ELSE GoTo(i, "insert") /\ UNCHANGED resp
                  /\ UNCHANGED users
             [] r.pc = "insert" ->
                  IF UsersUniqueOk(0, r.q.email, r.q.username)
                  THEN /\ users' = Append(users, row)
                       /\ answer(201, "ok", Some(ToResponse(Len(users) + 1, row)))
                  ELSE /\ answer(500, "failed to create user", Null)
                       /\ UNCHANGED users
        /\ UNCHANGED <<email_verifications, password_resets, now, ticks, config, registered>>

(* userRepository.Delete: UPDATE users SET status = inactive WHERE id *)
softDelete(id) == [users EXCEPT ![id].status = UserStatusInactive]

(* UserService.DeleteUser: GetByID, then Delete *)
DeleteUserErr(id) ==
    LET got == RepoLookup({id} \cap UserIds)
    IN  IF got.err # "ok" THEN "failed to get user"
        ELSE IF got.id = 0 THEN "user not found"
        ELSE "ok"

(* UserController.DeleteUser (DELETE /users/:id), behind JWTMiddleware *)
DeleteUser(id) ==
    LET tok == Bearer("access")
        err == DeleteUserErr(id)
    IN  /\ ~IsNull(resp.bearer)
        /\ IF JWTMiddleware(tok, now) # "ok"
           THEN /\ resp' = Response("delete_user", 401, JWTMiddleware(tok, now),
                               Null, resp.bearer, "none")
                /\ UNCHANGED users
           ELSE IF err # "ok"
           THEN /\ resp' = Response("delete_user",
                               IF err = "user not found" THEN 404 ELSE 500, err,
                               Null, resp.bearer, "none")
                /\ UNCHANGED users
           ELSE /\ users' = softDelete(id)
                /\ resp' = Response("delete_user", 200, "ok", Null, resp.bearer, "none")
        /\ UNCHANGED <<email_verifications, password_resets, now, ticks, config, reqs,
                       registered>>

(* UserController.UpdateUser / UserService.UpdateUser (PUT /users/:id),  *)
(* statement by statement; the first one is GetByID.                     *)
AfterGetByID(q) ==
    IF ~IsNull(q.email) THEN "email"
    ELSE IF ~IsNull(q.username) THEN "username" ELSE "update"

(* The status the controller answers an error of the service with: it    *)
(* compares the error with messages built from *req.Email and            *)
(* *req.Username, and a nil pointer there panics (500 by gin.Recovery).  *)
UpdateUserCode(q, err) ==
    IF err = "user not found" THEN 404
    ELSE IF IsNull(q.email) THEN 500
    ELSE IF err = "email is already taken" THEN 409
    ELSE IF IsNull(q.username) THEN 500
    ELSE IF err = "username is already taken" THEN 409
    ELSE 500

UpdateUserBegin(id, q) ==
    LET got == RepoLookup({id} \cap UserIds)
        fail(err) == resp' = Response("update_user", UpdateUserCode(q, err), err,
                                 Null, resp.bearer, "none")
    IN  /\ Len(reqs) < MaxReqs
        /\ Authorized
        /\ IF got.err # "ok"
           THEN fail("failed to get user") /\ UNCHANGED reqs
           ELSE IF got.id = 0
           THEN fail("user not found") /\ UNCHANGED reqs
           ELSE /\ reqs' = Append(reqs, Request("update_user", AfterGetByID(q), id,
                                      q, resp.bearer))
                /\ UNCHANGED resp
        /\ UNCHANGED <<users, email_verifications, password_resets, now, ticks, config, registered>>

UpdateUserStep(i) ==
    LET r   == reqs[i]
        new == ApplyUpdate(users[r.id], r.q)
        fail(err) == Answer(i, Response("update_user", UpdateUserCode(r.q, err), err,
                                   Null, r.bearer, "none"))
        byEmail == RepoLookup(IdsByEmail(Val(r.q.email)))
        byName  == RepoLookup(IdsByUsername(Val(r.q.username)))
    IN  /\ i \in DOMAIN reqs /\ r.op = "update_user"
        /\ CASE r.pc = "email" ->
                  /\ IF byEmail.err # "ok"
                     THEN fail("failed to check email availability")
                     ELSE IF byEmail.id # 0 /\ byEmail.id # r.id
                     THEN fail("email is already taken")
                     ELSE /\ GoTo(i, IF ~IsNull(r.q.username) THEN "username" ELSE "update")
                          /\ UNCHANGED resp
                  /\ UNCHANGED users
             [] r.pc = "username" ->
                  /\ IF byName.err # "ok"
                     THEN fail("failed to check username availability")
                     ELSE IF byName.id # 0 /\ byName.id # r.id
                     THEN fail("username is already taken")
                     ELSE GoTo(i, "update") /\ UNCHANGED resp
                  /\ UNCHANGED users
             [] r.pc = "update" ->
                  IF HasUpdates(r.q) /\ ~UsersUniqueOk(r.id, new.email, new.username)
                  THEN fail("failed to update user") /\ UNCHANGED users
                  ELSE /\ users' = IF HasUpdates(r.q)
                                   THEN [users EXCEPT ![r.id] = new] ELSE users
                       /\ IF RepoScanOk(new)
                          THEN Answer(i, Response("update_user", 200, "ok",
                                             Some(ToResponse(r.id, new)), r.bearer, "none"))
                          ELSE fail("failed to get updated user")
        /\ UNCHANGED <<email_verifications, password_resets, now, ticks, config, registered>>

(* AuthService.ResetPassword, statement by statement: the SELECT of the  *)
(* token row, the UPDATE of the password, the UPDATE that marks the      *)
(* token used.                                                           *)
ResetPasswordBegin(token, pw) ==
    LET got == getTokenUserID(password_resets, token, now)
    IN  /\ Len(reqs) < MaxReqs
        /\ Len(pw) >= bindingMinPassword
        /\ IF got.err # "ok"
           THEN /\ resp' = Response("reset", 400, "invalid or expired reset token",
                               Null, Null, "none")
                /\ UNCHANGED reqs
           ELSE /\ reqs' = Append(reqs, Request("reset", "update", got.user_id,
                                      [token |-> token, pw |-> pw], Null))
                /\ UNCHANGED resp
        /\ UNCHANGED <<users, email_verifications, password_resets, now, ticks, config, registered>>

ResetPasswordStep(i) ==
    LET r == reqs[i]
    IN  /\ i \in DOMAIN reqs /\ r.op = "reset"
        /\ CASE r.pc = "update" ->
                  /\ IF ValidatePassword(r.q.pw) # "ok"
                     THEN /\ Answer(i, Response("reset", 400, "failed to hash password",
                                           Null, Null, "none"))
                          /\ UNCHANGED users
                     ELSE /\ users' = updatePassword(users, r.id, HashPassword(r.q.pw))
                          /\ GoTo(i, "mark")
                          /\ UNCHANGED resp
                  /\ UNCHANGED password_resets
             [] r.pc = "mark" ->
                  /\ password_resets' = markTokenUsed(password_resets, r.q.token, now)
                  /\ Answer(i, Response("reset", 200, "ok", Null, Null, "none"))
                  /\ UNCHANGED users
        /\ UNCHANGED <<email_verifications, now, ticks, config, registered>>

(* AuthService.VerifyEmail, statement by statement: the SELECT of the    *)
(* token row, the UPDATE of the flag, the UPDATE that marks the token    *)
(* used (then the account is read for the welcome notification).         *)
VerifyEmailBegin(token) ==
    LET got == getTokenUserID(email_verifications, token, now)
    IN  /\ Len(reqs) < MaxReqs
        /\ IF got.err # "ok"
           THEN /\ resp' = Response("verify", 400, "invalid or expired verification token",
                               Null, Null, "none")
                /\ UNCHANGED reqs
           ELSE /\ reqs' = Append(reqs, Request("verify", "update", got.user_id,
                                      [token |-> token], Null))
                /\ UNCHANGED resp
        /\ UNCHANGED <<users, email_verifications, password_resets, now, ticks, config, registered>>

VerifyEmailStep(i) ==
    LET r == reqs[i]
    IN  /\ i \in DOMAIN reqs /\ r.op = "verify"
        /\ CASE r.pc = "update" ->
                  /\ users' = updateEmailVerification(users, r.id, TRUE)
                  /\ GoTo(i, "mark")
                  /\ UNCHANGED <<resp, email_verifications>>
             [] r.pc = "mark" ->
                  /\ email_verifications' =
                         markTokenUsed(email_verifications, r.q.token, now)
                  /\ IF r.id \in UserIds /\ AuthScanOk(users[r.id])
                     THEN Answer(i, Response("verify", 200, "ok",
                                        Some(ToResponse(r.id, users[r.id])), Null, "sent"))
                     ELSE Answer(i, Response("verify", 400, "failed to get user",
                                        Null, Null, "none"))
                  /\ UNCHANGED users
        /\ UNCHANGED <<password_resets, now, ticks, config, registered>>

-----------------------------------------------------------------------------
(* The store after construction, and the specifications.  Every          *)
(* specification runs the handlers one request at a time from the empty  *)
(* store; they differ in the requests the clients send.                  *)

Init ==
    /\ users = <<>>
    /\ email_verifications = {}
    /\ password_resets = {}
    /\ now = 0
    /\ ticks = 0
    /\ resp = NoResponse
    /\ reqs = <<>>
    /\ registered = {}
    /\ config = DefaultJWT

(* The username and the verification token of the registrations of the   *)
(* specifications that register each email in one way.                   *)
UsernameOf(email) == IF email = "alice@example.com" THEN "alice" ELSE "bob"
TokenOf(email) == IF email = "alice@example.com" THEN "tokA" ELSE "tokB"

StatusRequests ==
    {UpdateRequest(Null, Null, Null, Some(s)) :
        s \in {UserStatusInactive, UserStatusActive}}

(* Registration, verification, login and the profile routes *)
NextLogin ==
    \/ \E e \in Emails, p \in StrongPasswords :
          Register(e, UsernameOf(e), p, UserRoleFan, TokenOf(e), TRUE)
    \/ \E e \in Emails, p \in Passwords : Login(e, p)
    \/ \E t \in TokenStrings : VerifyEmail(t)
    \/ \E w \in {"access", "refresh"} : GetProfile(w)
    \/ \E q \in StatusRequests : UpdateProfile(q)
    \/ \E d \in TickSteps : Tick(d)

SpecLogin == Init /\ [][NextLogin]_vars

(* Registration with every kind of draft, and changes of email/username *)
NextRegister ==
    \/ \E e \in Emails, u \in Usernames, p \in Passwords, r \in Roles,
          t \in TokenStrings, ok \in BOOLEAN : Register(e, u, p, r, t, ok)
    \/ \E q \in UpdateRequests : UpdateProfile(q)

SpecRegister == Init /\ [][NextRegister]_vars

(* The ephemeral tokens: issue, redeem, expire *)
NextTokens ==
    \/ \E e \in Emails :
          Register(e, UsernameOf(e), Passw0rd, UserRoleFan, TokenOf(e), TRUE)
    \/ \E t \in TokenStrings : VerifyEmail(t)
    \/ \E e \in Emails, t \in TokenStrings, ok \in BOOLEAN : ForgotPassword(e, t, ok)
    \/ \E t \in TokenStrings, p \in {Secret99, password} : ResetPassword(t, p)
    \/ \E d \in TickSteps : Tick(d)

SpecTokens == Init /\ [][NextTokens]_vars

(* Concurrent requests that write the users table: registrations, POST   *)
(* /users, PUT /users/:id and PUT /auth/profile (one statement).         *)
MaxUsers == Cardinality(Emails)

(* The changes of email and username the concurrent requests ask for: to *)
(* the email or username of a registration, or to an email no            *)
(* registration uses.                                                    *)
ConcUpdateRequests ==
    {UpdateRequest(Some(e), Null, Null, Null) : e \in Emails \cup {"carol@example.com"}}
        \cup {UpdateRequest(Null, Some(u), Null, Null) : u \in Usernames}

NextConc ==
    \/ \E e \in Emails, u \in Usernames : RegisterBegin(e, u, Passw0rd, UserRoleFan)
    \/ \E i \in DOMAIN reqs : RegisterStep(i, TokenOf(reqs[i].q.email))
    \/ \E e \in Emails : CreateUserBegin(e, UsernameOf(e), Passw0rd, UserRoleFan)
    \/ \E i \in DOMAIN reqs : CreateUserStep(i)
    \/ \E id \in 1..MaxUsers, q \in ConcUpdateRequests : UpdateUserBegin(id, q)
    \/ \E i \in DOMAIN reqs : UpdateUserStep(i)
    \/ \E q \in ConcUpdateRequests : UpdateProfile(q)

SpecConc == Init /\ [][NextConc]_vars

(* Concurrent requests that redeem tokens, after registrations and       *)
(* ForgotPassword calls that ran alone.                                  *)
NextRace ==
    \/ \E e \in Emails :
          Register(e, UsernameOf(e), Passw0rd, UserRoleFan, TokenOf(e), TRUE)
    \/ \E e \in Emails : ForgotPassword(e, TokenOf(e), TRUE)
    \/ \E t \in TokenStrings, p \in StrongPasswords : ResetPasswordBegin(t, p)
    \/ \E i \in DOMAIN reqs : ResetPasswordStep(i)
    \/ \E t \in TokenStrings : VerifyEmailBegin(t)
    \/ \E i \in DOMAIN reqs : VerifyEmailStep(i)

SpecRace == Init /\ [][NextRace]_vars

(* Password reset followed by login: registrations with one password,    *)
(* verification, reset tokens, resets to a strong or a weak password and *)
(* logins with the old and the new password.                             *)
NextReset ==
    \/ \E e \in Emails :
          Register(e, UsernameOf(e), Passw0rd, UserRoleFan, TokenOf(e), TRUE)
    \/ \E t \in TokenStrings : VerifyEmail(t)
    \/ \E e \in Emails : ForgotPassword(e, TokenOf(e), TRUE)
    \/ \E t \in TokenStrings, p \in Passwords : ResetPassword(t, p)
    \/ \E e \in Emails, p \in StrongPasswords : Login(e, p)

SpecReset == Init /\ [][NextReset]_vars

(* Redeems whose last statement, the UPDATE that marks the token used,   *)
(* may be refused by the database; one account, whose tokens take either *)
(* string.                                                               *)
NextMark ==
    \/ \E t \in TokenStrings :
          Register("alice@example.com", "alice", Passw0rd, UserRoleFan, t, TRUE)
    \/ \E t \in TokenStrings, m \in BOOLEAN : VerifyEmailWith(t, m)
    \/ \E t \in TokenStrings : ForgotPassword("alice@example.com", t, TRUE)
    \/ \E t \in TokenStrings, p \in StrongPasswords, m \in BOOLEAN :
          ResetPasswordWith(t, p, m)
    \/ \E d \in TickSteps : Tick(d)

SpecMark == Init /\ [][NextMark]_vars

(* The JWT service under every configuration of its two secrets, the     *)
(* one with equal secrets included, for accounts of two roles.           *)
JWTSecrets == {DefaultJWT.AccessSecret, DefaultJWT.RefreshSecret}
ForeignSecret == "another-service-secret"

StoredAccount(email, role) ==
    [NewAuthUser(email, UsernameOf(email), Passw0rd, role) EXCEPT !.email_verified = TRUE]

InitJWT ==
    /\ \E r1, r2 \in {UserRoleFan, UserRoleAdmin} :
           users = <<StoredAccount("alice@example.com", r1),
                     StoredAccount("bob@example.com", r2)>>
    /\ email_verifications = {}
    /\ password_resets = {}
    /\ now = 0
    /\ ticks = 0
    /\ resp = NoResponse
    /\ reqs = <<>>
    /\ registered = {}
    /\ config \in [AccessSecret : JWTSecrets, RefreshSecret : JWTSecrets]

NextJWT ==
    \/ \E id \in 1..MaxUsers : IssueTokenPair(id)
    \/ \E id \in 1..MaxUsers : ForeignTokenPair(id, ForeignSecret, ForeignSecret)
    \/ \E k, w \in {"access", "refresh"} : ValidateToken(k, w)
    \/ \E d \in TickSteps : Tick(d)

SpecJWT == InitJWT /\ [][NextJWT]_vars

(* The protected route asked with every form of the header, by a client  *)
(* that holds a pair of the service, a pair of another service, or a     *)
(* pair for an id the store does not hold, as the tokens age.            *)
Schemes == {"Bearer ", "bearer ", "Basic ", ""}
HeaderTokens == {"access", "refresh", "none", "missing"}

NextMiddleware ==
    \/ \E id \in 1..MaxUsers : IssueTokenPair(id)
    \/ \E id \in 1..MaxUsers : ForeignTokenPair(id, ForeignSecret, ForeignSecret)
    \/ StaleTokenPair(MaxUsers + 1, "dave@example.com", "dave")
    \/ \E s \in Schemes, w \in HeaderTokens : GetProfileRequest(s, w)
    \/ \E d \in TickSteps : Tick(d)

SpecMiddleware == InitJWT /\ [][NextMiddleware]_vars

(* A session followed to the expiry of its tokens: one registration,     *)
(* verification, login, refreshes, the profile routes with changes of    *)
(* status, role and email, and a clock that stops just before and at the *)
(* expiry of the access and of the refresh token.                        *)
SessionSteps == {ResetExpiry, accessExpiry - ResetExpiry, refreshExpiry - ResetExpiry}

SessionRequests ==
    StatusRequests
        \cup {UpdateRequest(Null, Null, Some(UserRoleAdmin), Null),
              UpdateRequest(Some("carol@example.com"), Null, Null, Null)}

NextRefresh ==
    \/ Register("alice@example.com", "alice", Passw0rd, UserRoleFan, "tokA", TRUE)
    \/ VerifyEmail("tokA")
    \/ \E e \in {"alice@example.com", "carol@example.com"} : Login(e, Passw0rd)
    \/ \E w \in {"access", "refresh"} : RefreshToken(w)
    \/ GetProfile("access")
    \/ \E q \in SessionRequests : UpdateProfile(q)
    \/ StaleTokenPair(MaxUsers, "bob@example.com", "bob")
    \/ \E d \in SessionSteps : SessionTick(d)

SpecRefresh == Init /\ [][NextRefresh]_vars

(* Registrations with every role of the binding's list and one outside   *)
(* it, with a password that passes the binding and one that does not.    *)
DraftRoles ==
    {UserRoleAdmin, UserRoleModerator, UserRoleProducer, UserRoleArtist, UserRoleFan,
     UserRoleBuyer, "guest"}

NextRoles ==
    \/ \E e \in Emails, p \in {Passw0rd, short1A}, r \in DraftRoles :
          Register(e, UsernameOf(e), p, r, TokenOf(e), TRUE)
    \/ GetProfile("access")

SpecRoles == Init /\ [][NextRoles]_vars

(* Accounts of both creation paths (POST /auth/register, POST /users)    *)
(* with verification, login, refresh, profile updates, password reset    *)
(* and DELETE /users/:id.                                                *)
NextDelete ==
    \/ \E e \in Emails : Register(e, UsernameOf(e), Passw0rd, UserRoleFan, TokenOf(e), TRUE)
    \/ VerifyEmail("tokA")
    \/ \E e \in Emails : Login(e, Passw0rd)
    \/ RefreshToken("refresh")
    \/ CreateUserBegin("bob@example.com", "bob", Passw0rd, UserRoleFan)
    \/ \E i \in DOMAIN reqs : CreateUserStep(i)
    \/ \E id \in 1..MaxUsers : DeleteUser(id)
    \/ \E q \in SessionRequests : UpdateProfile(q)
    \/ ForgotPassword("alice@example.com", "tokB", TRUE)
    \/ ResetPassword("tokB", Secret99)

SpecDelete == Init /\ [][NextDelete]_vars

(* Two stored accounts whose rows carry updated_at, the token pair of    *)
(* the first one, and profile updates of the six fields.                 *)
TimedAccount(email) ==
    LET row == StoredAccount(email, UserRoleFan)
    IN  [f \in DOMAIN row \cup {"updated_at"} |->
            IF f = "updated_at" THEN 0 ELSE row[f]]

MaxFields == 2

AllProfileRequests ==
    {[email |-> e, username |-> u, first_name |-> f, last_name |-> l,
      role |-> r, status |-> st] :
        e \in Nullable({"carol@example.com"}),
        u \in Nullable({"carol"}), f \in Nullable({"New"}), l \in Nullable({"Name"}),
        r \in Nullable({UserRoleAdmin}), st \in Nullable({UserStatusSuspended})}

(* The requests with no field, with up to MaxFields fields and with all  *)
(* six, and one whose email another account holds.                       *)
ProfileRequests ==
    {q \in AllProfileRequests :
        LET n == Cardinality({f \in DOMAIN q : ~IsNull(q[f])})
        IN  n <= MaxFields \/ n = 6}
      \cup {UpdateRequest(Some("bob@example.com"), Null, Null, Null)}

InitProfile ==
    /\ users = <<TimedAccount("alice@example.com"), TimedAccount("bob@example.com")>>
    /\ email_verifications = {}
    /\ password_resets = {}
    /\ now = 0
    /\ ticks = 0
    /\ resp = NoResponse
    /\ reqs = <<>>
    /\ registered = {}
    /\ config = DefaultJWT

NextProfile ==
    \/ IssueTokenPair(1)
    \/ \E q \in ProfileRequests : UpdateProfile(q)
    \/ GetProfile("access")
    \/ \E d \in TickSteps : Tick(d)

SpecProfile == InitProfile /\ [][NextProfile]_vars

(* The passwords given to the strength policy: the fixtures, one         *)
(* password for each rule, denylist entries in mixed case, and one of    *)
(* seven characters that takes eight bytes.                              *)
PASSWORD1 == <<"P", "A", "S", "S", "W", "O", "R", "D", "1">>
passw0rdx == <<"p", "a", "s", "s", "w", "0", "r", "d", "x">>
Passwordx == <<"P", "a", "s", "s", "w", "o", "r", "d", "x">>
Password1 == <<"P", "a", "s", "s", "w", "o", "r", "d", "1">>
Password123 == <<"P", "a", "s", "s", "w", "o", "r", "d", "1", "2", "3">>
Trustno1 == <<"T", "r", "u", "s", "t", "n", "o", "1">>
Paessw0 == <<"P", "a_umlaut", "s", "s", "w", "0", "r">>
PolicyPasswords ==
    Passwords \cup {PASSWORD1, passw0rdx, Passwordx, Password1, Password123, Trustno1,
                    Paessw0}

NextPassword ==
    \/ \E p \in PolicyPasswords : HashPasswordCall(p)
    \/ \E p \in PolicyPasswords :
          Register("alice@example.com", "alice", p, UserRoleFan, "tokA", TRUE)
    \/ ForgotPassword("alice@example.com", "tokB", TRUE)
    \/ \E p \in PolicyPasswords : ResetPassword("tokB", p)
    \/ VerifyEmail("tokA")
    \/ \E p \in StrongPasswords : Login("alice@example.com", p)

SpecPassword == Init /\ [][NextPassword]_vars

(* Registrations and ForgotPassword calls whose tokens come from the     *)
(* generator: strings of TokenLength characters, each drawn at one of    *)
(* the clock readings.                                                   *)
TokenLength == 2
ClockReadings == {0, 1, 62}
Readings == [1..TokenLength -> ClockReadings]

NextGenerator ==
    \/ \E e \in Emails, ns \in Readings :
          Register(e, UsernameOf(e), Passw0rd, UserRoleFan,
                   generateRandomString(TokenLength, ns), TRUE)
    \/ \E e \in Emails, ns \in Readings :
          ForgotPassword(e, generateRandomString(TokenLength, ns), TRUE)
    \/ \E ns \in Readings : VerifyEmail(generateRandomString(TokenLength, ns))

SpecGenerator == Init /\ [][NextGenerator]_vars

(* Two accounts with their verification and reset tokens, redeemed while *)
(* the accounts change status.                                           *)
NextFrame ==
    \/ \E e \in Emails :
          Register(e, UsernameOf(e), Passw0rd, UserRoleFan, TokenOf(e), TRUE)
    \/ \E q \in StatusRequests : UpdateProfile(q)
    \/ \E e \in Emails : ForgotPassword(e, TokenOf(e), TRUE)
    \/ \E t \in TokenStrings : VerifyEmail(t)
    \/ \E t \in TokenStrings, p \in {Secret99, password} : ResetPassword(t, p)
    \/ Tick(VerificationExpiry + 1)

SpecFrame == Init /\ [][NextFrame]_vars

(* PUT /users/:id on accounts created by POST /users, asked by a client  *)
(* whose token comes from a registration: changes of the email, of the   *)
(* username and of both, to values that are taken or the target's own.   *)
UpdateUserRequests ==
    {UpdateRequest(Some(e), Null, Null, Null) : e \in Emails}
        \cup {UpdateRequest(Null, Some(u), Null, Null) : u \in Usernames}
        \cup {UpdateRequest(Some(e), Some(u), Null, Null) :
                 e \in Emails, u \in Usernames}

NextUpdate ==
    \/ Register("carol@example.com", "carol", Passw0rd, UserRoleFan, "tokA", TRUE)
    \/ \E e \in Emails : CreateUserBegin(e, UsernameOf(e), Passw0rd, UserRoleFan)
    \/ \E i \in DOMAIN reqs : CreateUserStep(i)
    \/ \E id \in 1..(MaxUsers + 1), q \in UpdateUserRequests : UpdateUserBegin(id, q)
    \/ \E i \in DOMAIN reqs : UpdateUserStep(i)

SpecUpdate == Init /\ [][NextUpdate]_vars

(* One account with its tokens, and everything that could be thought to  *)
(* revoke them: logout, suspension, soft delete, password reset.         *)
RevokeSteps == {ResetExpiry, accessExpiry - ResetExpiry}

NextRevoke ==
    \/ Register("alice@example.com", "alice", Passw0rd, UserRoleFan, "tokA", TRUE)
    \/ VerifyEmail("tokA")
    \/ \E p \in {Passw0rd, Secret99} : Login("alice@example.com", p)
    \/ ForgotPassword("alice@example.com", "tokB", TRUE)
    \/ ResetPassword("tokB", Secret99)
    \/ GetProfile("access")
    \/ Logout
    \/ \E q \in StatusRequests : UpdateProfile(q)
    \/ \E id \in 1..MaxUsers : DeleteUser(id)
    \/ \E d \in RevokeSteps : SessionTick(d)

SpecRevoke == Init /\ [][NextRevoke]_vars

-----------------------------------------------------------------------------
(* Properties of login *)

(* The account a login by email finds, if any *)
AccountOf(email) == CHOOSE i \in IdsByEmail(email) : TRUE

LoginAllowed(email, pw) ==
    /\ IdsByEmail(email) # {}
    /\ users[AccountOf(email)].status = UserStatusActive
    /\ users[AccountOf(email)].email_verified = TRUE
    /\ ~IsNull(users[AccountOf(email)].password_hash)
    /\ VerifyPassword(Val(users[AccountOf(email)].password_hash), pw)

(* C1: LoginUser returns a token pair only if the account found by the   *)
(* email is active, has email_verified = true and the password verifies  *)
(* against its stored hash; in every other case it returns an error and  *)
(* issues no tokens.                                                     *)
C1_LoginGated ==
    [][\A e \in Emails, p \in Passwords :
          (resp'.op = "login" /\ Login(e, p)) =>
              /\ ~IsNull(resp'.bearer) => LoginAllowed(e, p)
              /\ ~LoginAllowed(e, p) =>
                     resp'.code # 200 /\ resp'.err # "ok" /\ IsNull(resp'.bearer)]_vars

(* A login has succeeded while another account is still unverified. *)
C1_Witness ==
    /\ resp.op = "login" /\ resp.code = 200 /\ ~IsNull(resp.bearer)
    /\ \E i \in UserIds : ~users[i].email_verified

(* The verification tokens of an account that have been redeemed *)
RedeemedBy(table, id) == {r \in table : r.user_id = id /\ ~IsNull(r.used_at)}

(* A step that creates an account creates it unverified. *)
CreatedUnverified ==
    Len(users') > Len(users) => ~users'[Len(users')].email_verified

(* A step that sets an account's flag is a successful VerifyEmail that   *)
(* redeems, in the same step, a verification token owned by the account. *)
VerifiedOnlyByVerifyEmail ==
    \A i \in UserIds :
        (~users[i].email_verified /\ users'[i].email_verified) =>
            /\ resp'.op = "verify" /\ resp'.code = 200
            /\ RedeemedBy(email_verifications', i) # RedeemedBy(email_verifications, i)

(* Login with the credentials of the registration just answered *)
LoginRightAfterRegister ==
    \A e \in Emails, p \in Passwords :
        (/\ resp.op = "register" /\ resp.code = 201 /\ Val(resp.user).email = e
         /\ VerifyPassword(Val(users[AccountOf(e)].password_hash), p)
         /\ resp'.op = "login" /\ Login(e, p)) =>
            /\ resp'.code = 401 /\ IsNull(resp'.bearer)
            /\ resp'.err = "please verify your email before logging in"

(* Login of an account registered here whose token has been redeemed *)
LoginAfterVerify ==
    \A e \in Emails, p \in Passwords :
        (/\ e \in registered /\ IdsByEmail(e) # {}
         /\ RedeemedBy(email_verifications, AccountOf(e)) # {}
         /\ users[AccountOf(e)].status = UserStatusActive
         /\ VerifyPassword(Val(users[AccountOf(e)].password_hash), p)
         /\ resp'.op = "login" /\ Login(e, p)) =>
            /\ resp'.code = 200 /\ ~IsNull(resp'.bearer)
            /\ Val(resp'.bearer).access.user_id = AccountOf(e)

(* A successful login is the login of a verified account. *)
LoginOnlyVerified ==
    \A e \in Emails, p \in Passwords :
        (resp'.op = "login" /\ resp'.code = 200 /\ Login(e, p)) =>
            /\ users[AccountOf(e)].email_verified
            /\ RedeemedBy(email_verifications, AccountOf(e)) # {}

(* GET /auth/profile with the access token of the login just answered,  *)
(* before that token expires                                             *)
ProfileAfterLogin ==
    (/\ resp.op = "login" /\ resp.code = 200
     /\ now < Val(resp.bearer).access.exp
     /\ GetProfile("access")) =>
        /\ resp'.code = 200
        /\ Val(resp'.user).id = Val(resp.bearer).access.user_id
        /\ Val(resp'.user).email_verified = TRUE

(* C2: for every account created by Register, each successful Login is   *)
(* preceded by a successful VerifyEmail of a verification token owned by *)
(* that account: an account is created unverified and only VerifyEmail   *)
(* sets the flag; Login directly after Register fails with the "please   *)
(* verify your email" error; once the token has been redeemed Login with *)
(* the same credentials succeeds and returns a token pair, and GET       *)
(* /auth/profile with that access token shows email_verified = true.     *)
C2_VerifyBeforeLogin ==
    [][/\ CreatedUnverified
       /\ VerifiedOnlyByVerifyEmail
       /\ LoginOnlyVerified
       /\ LoginRightAfterRegister
       /\ LoginAfterVerify
       /\ ProfileAfterLogin]_vars

(* The profile read with the token of a login, showing the flag set by   *)
(* the redeemed verification token.                                      *)
C2_Witness ==
    /\ resp.op = "profile" /\ resp.code = 200
    /\ Val(resp.user).email_verified = TRUE
    /\ RedeemedBy(email_verifications, Val(resp.user).id) # {}

-----------------------------------------------------------------------------
(* Properties of registration *)

(* A draft the handler hands to RegisterUser *)
ValidDraft(pw, role) == BindCreateUserRequest(pw, role) /\ isValidRole(role)

RegisterRefused(err) ==
    /\ resp'.code = 400 /\ resp'.err = err /\ IsNull(resp'.bearer)
    /\ users' = users
    /\ email_verifications' = email_verifications

(* C4 as stated: Register succeeds exactly once per email; once an       *)
(* account has been registered with an email, every later Register with  *)
(* that email fails and creates no account and no verification token.    *)
C4_OncePerEmailEver ==
    [][\A e \in Emails, u \in Usernames, p \in Passwords, r \in Roles,
          t \in TokenStrings, ok \in BOOLEAN :
          (e \in registered /\ ValidDraft(p, r) /\ Register(e, u, p, r, t, ok)) =>
              /\ resp'.code = 400 /\ IsNull(resp'.bearer)
              /\ users' = users
              /\ email_verifications' = email_verifications]_vars

(* C4: while an account holds an email, every Register of a valid draft  *)
(* with that email fails with the email-conflict error whatever the      *)
(* username, password and role are, and creates no account and no        *)
(* verification token; a Register with a free email but a username an    *)
(* account holds fails with the distinct username-conflict error.        *)
C4_RegisterConflicts ==
    [][\A e \in Emails, u \in Usernames, p \in Passwords, r \in Roles,
          t \in TokenStrings, ok \in BOOLEAN :
          (/\ ValidDraft(p, r)
           /\ userExistsByEmail(e) \/ userExistsByUsername(u)
           /\ Register(e, u, p, r, t, ok)) =>
              /\ userExistsByEmail(e) =>
                     RegisterRefused("user with this email already exists")
              /\ (~userExistsByEmail(e) /\ userExistsByUsername(u)) =>
                     RegisterRefused("username already taken")]_vars

(* A second registration with the email of the only account, refused    *)
(* with the email-conflict error.                                        *)
C4_Witness ==
    /\ resp.op = "register" /\ resp.code = 400
    /\ resp.err = "user with this email already exists"
    /\ Len(users) = 1
    /\ registered = {users[1].email}

-----------------------------------------------------------------------------
(* Properties of the ephemeral tokens *)

(* The row of a table that holds the token (token is UNIQUE) *)
RowOf(table, token) == CHOOSE r \in table : r.token = token
HasRow(table, token) == \E r \in table : r.token = token

(* The validity of the specification: the row exists, is unconsumed and  *)
(* now < expires_at.                                                     *)
ValidBefore(table, token) ==
    /\ HasRow(table, token)
    /\ IsNull(RowOf(table, token).used_at)
    /\ now < RowOf(table, token).expires_at

(* C5: redeeming an ephemeral token succeeds exactly when a row with     *)
(* that string exists, is unconsumed and now < expires_at; a redeem at   *)
(* now = expires_at fails, and a failed redeem consumes nothing.         *)
C5_RedeemIffBeforeExpiry ==
    [][/\ \A t \in TokenStrings :
              VerifyEmail(t) =>
                  /\ resp'.code = 200 <=> ValidBefore(email_verifications, t)
                  /\ resp'.code # 200 => email_verifications' = email_verifications
       /\ \A t \in TokenStrings, p \in Passwords :
              (ResetPassword(t, p) /\ ValidatePassword(p) = "ok") =>
                  /\ resp'.code = 200 <=> ValidBefore(password_resets, t)
                  /\ resp'.code # 200 => password_resets' = password_resets]_vars

(* The rows of a table stay, and a row once marked used stays as it is. *)
UsedStaysUsed(table, tableNext) ==
    \A r \in table :
        /\ HasRow(tableNext, r.token)
        /\ ~IsNull(r.used_at) => r \in tableNext

Used(table, token) == HasRow(table, token) /\ ~IsNull(RowOf(table, token).used_at)

(* C6: once a token has been marked used by a successful VerifyEmail or  *)
(* ResetPassword, every later VerifyEmail / ResetPassword presenting it  *)
(* fails, for the rest of the run, and changes no account.               *)
C6_UsedTokenStaysInvalid ==
    [][/\ UsedStaysUsed(email_verifications, email_verifications')
       /\ UsedStaysUsed(password_resets, password_resets')
       /\ \A t \in TokenStrings :
              (Used(email_verifications, t) /\ VerifyEmail(t)) =>
                  /\ resp'.code = 400
                  /\ resp'.err = "invalid or expired verification token"
                  /\ users' = users
                  /\ email_verifications' = email_verifications
       /\ \A t \in TokenStrings, p \in Passwords :
              (Used(password_resets, t) /\ ResetPassword(t, p)) =>
                  /\ resp'.code = 400
                  /\ resp'.err = "invalid or expired reset token"
                  /\ users' = users
                  /\ password_resets' = password_resets]_vars

(* A reset refused although every token string names a reset token that  *)
(* has not expired: each of them has been used.                          *)
C6_Witness ==
    /\ resp.op = "reset" /\ resp.code = 400
    /\ resp.err = "invalid or expired reset token"
    /\ \A t \in TokenStrings :
           /\ Used(password_resets, t)
           /\ now <= RowOf(password_resets, t).expires_at

(* The rows ForgotPassword has added *)
NewResets == password_resets' \ password_resets

(* C8: ForgotPassword for an email with no account returns success and   *)
(* creates no reset-token row; for an existing account it creates        *)
(* exactly one new row, owned by the account, unconsumed, with           *)
(* expires_at = now + 1 hour.                                            *)
C8_ForgotCreatesOneRow ==
    [][\A e \in Emails, t \in TokenStrings, ok \in BOOLEAN :
          ForgotPassword(e, t, ok) =>
              /\ password_resets \subseteq password_resets'
              /\ IdsByEmail(e) = {} =>
                     resp'.code = 200 /\ NewResets = {}
              /\ IdsByEmail(e) # {} =>
                     /\ Cardinality(NewResets) = 1
                     /\ \A r \in NewResets :
                            /\ r.user_id = AccountOf(e)
                            /\ IsNull(r.used_at)
                            /\ r.expires_at = now + ResetExpiry]_vars

(* The token was issued more than its lifetime ago. *)
Older(table, token) ==
    HasRow(table, token) /\ now > RowOf(table, token).expires_at

(* C9: a reset token can be redeemed only within 1 hour of the           *)
(* ForgotPassword that issued it and a verification token only within   *)
(* 24 hours of the Register that issued it; ResetPassword or VerifyEmail *)
(* with an older token fails with the expired/invalid-token error and    *)
(* leaves the password hash, the email_verified flag and the token row   *)
(* unchanged.                                                            *)
C9_ExpiredTokenRejected ==
    [][/\ \A r \in email_verifications' \ email_verifications :
              IsNull(r.used_at) => r.expires_at = now + VerificationExpiry
       /\ \A r \in password_resets' \ password_resets :
              IsNull(r.used_at) => r.expires_at = now + ResetExpiry
       /\ \A t \in TokenStrings :
              (Older(email_verifications, t) /\ VerifyEmail(t)) =>
                  /\ resp'.code = 400
                  /\ resp'.err = "invalid or expired verification token"
                  /\ users' = users
                  /\ email_verifications' = email_verifications
       /\ \A t \in TokenStrings, p \in Passwords :
              (Older(password_resets, t) /\ ResetPassword(t, p)) =>
                  /\ resp'.code = 400
                  /\ resp'.err = "invalid or expired reset token"
                  /\ users' = users
                  /\ password_resets' = password_resets]_vars

(* A verification refused although every token string names a           *)
(* verification token that is unused: each of them is older than a day.  *)
C9_Witness ==
    /\ resp.op = "verify" /\ resp.code = 400
    /\ \A t \in TokenStrings :
           /\ HasRow(email_verifications, t)
           /\ ~Used(email_verifications, t)
           /\ Older(email_verifications, t)

(* C10: the outcome of ForgotPassword visible to the caller is always    *)
(* success (HTTP 200) and is the same whether or not an account with the *)
(* email exists, in every state of the store and of the notification     *)
(* collaborator.                                                         *)
C10_ForgotAlwaysSucceeds ==
    [][\A e \in Emails, t \in TokenStrings, ok \in BOOLEAN :
          ForgotPassword(e, t, ok) => resp'.code = 200 /\ resp'.err = "ok"]_vars

-----------------------------------------------------------------------------
(* Properties of concurrent requests *)

UniqueAccounts ==
    \A i, j \in UserIds :
        i # j => users[i].email # users[j].email /\ users[i].username # users[j].username

(* A step that creates an account creates it with an email and a         *)
(* username no account holds.                                            *)
InsertOnlyFree ==
    Len(users') > Len(users) =>
        /\ ~userExistsByEmail(users'[Len(users')].email)
        /\ ~userExistsByUsername(users'[Len(users')].username)

(* C3: in every reachable state, under any interleaving of concurrent    *)
(* Register, POST /users, PUT /users/:id and PUT /auth/profile requests, *)
(* no two account rows share an email and no two share a username; the   *)
(* existence check followed by an insert never lets two concurrent       *)
(* registrations of the same email both succeed.                         *)
C3_UniqueUnderConcurrency == []UniqueAccounts /\ [][InsertOnlyFree]_vars

(* A registration that passed the existence checks and was then refused  *)
(* by the insert: another request took the email or the username in      *)
(* between.                                                              *)
C3_Witness ==
    /\ resp.op = "register" /\ resp.err = "failed to create user"
    /\ Len(users) = MaxUsers

(* The redeeming requests in flight that have changed the account with   *)
(* the token and have not yet marked it                                  *)
Changing(op, token) ==
    {j \in DOMAIN reqs : reqs[j].op = op /\ reqs[j].q.token = token /\ reqs[j].pc = "mark"}

(* C7: an ephemeral token is consumed exactly once: when two             *)
(* ResetPassword requests (or two VerifyEmail requests) carrying the     *)
(* same valid token run concurrently, at most one of them succeeds and   *)
(* at most one password change results from the token: a request changes *)
(* the account only if no other request has changed it with the token,   *)
(* and a request that succeeds finds the token unconsumed.               *)
C7_ConsumedOnce ==
    [][\A i \in DOMAIN reqs :
          /\ (ResetPasswordStep(i) /\ reqs[i].pc = "update" /\ users' # users) =>
                 Changing("reset", reqs[i].q.token) = {}
          /\ (ResetPasswordStep(i) /\ reqs[i].pc = "mark") =>
                 ~Used(password_resets, reqs[i].q.token)
          /\ (VerifyEmailStep(i) /\ reqs[i].pc = "update") =>
                 Changing("verify", reqs[i].q.token) = {}
          /\ (VerifyEmailStep(i) /\ reqs[i].pc = "mark") =>
                 ~Used(email_verifications, reqs[i].q.token)]_vars

-----------------------------------------------------------------------------
(* Properties of the messages of login *)

(* C11: every failed Login (unknown email, non-active status, wrong      *)
(* password, unverified email) returns one of exactly two messages, the  *)
(* uniform "invalid email or password" or "please verify your email";   *)
(* no other account-specific message is returned.                        *)
C11_TwoLoginMessages ==
    [][\A e \in Emails, p \in Passwords :
          (resp'.op = "login" /\ resp'.code # 200 /\ Login(e, p)) =>
              resp'.err \in {"invalid email or password",
                             "please verify your email before logging in"}]_vars

-----------------------------------------------------------------------------
(* Properties of the password reset *)

(* The account that owns the reset token *)
ResetOwner(token) == RowOf(password_resets, token).user_id

(* C12: after a successful ResetPassword(token, p) for an active,        *)
(* verified account, Login with p succeeds and Login with the previous   *)
(* password (when it differs from p) fails with "invalid email or        *)
(* password"; ResetPassword itself issues no token pair and changes      *)
(* neither status nor email_verified; a Login that directly follows a    *)
(* successful reset is decided by the stored hash alone.                 *)
C12_LoginAfterReset ==
    [][/\ \A t \in TokenStrings, p \in Passwords :
              (resp'.op = "reset" /\ resp'.code = 200 /\ ResetPassword(t, p)) =>
                  LET id == ResetOwner(t)
                      e  == users[id].email
                  IN  /\ IsNull(resp'.bearer) /\ IsNull(resp'.user)
                      /\ users'[id].status = users[id].status
                      /\ users'[id].email_verified = users[id].email_verified
                      /\ users'[id].email = e
                      /\ (users[id].status = UserStatusActive /\ users[id].email_verified) =>
                             /\ LoginUserErr(e, p)' = "ok"
                             /\ \A old \in Passwords \ {p} :
                                    VerifyPassword(Val(users[id].password_hash), old) =>
                                        LoginUserErr(e, old)' = "invalid email or password"
       /\ \A e \in Emails, q \in Passwords :
              (/\ resp.op = "reset" /\ resp.code = 200
               /\ IdsByEmail(e) # {}
               /\ users[AccountOf(e)].status = UserStatusActive
               /\ users[AccountOf(e)].email_verified
               /\ resp'.op = "login" /\ Login(e, q)) =>
                  IF VerifyPassword(Val(users[AccountOf(e)].password_hash), q)
                  THEN resp'.code = 200 /\ ~IsNull(resp'.bearer)
                  ELSE resp'.code = 401 /\ resp'.err = "invalid email or password"]_vars

(* A login that succeeded with a password other than the one of the      *)
(* registration: the account's reset token has been redeemed.            *)
C12_Witness ==
    /\ resp.op = "login" /\ resp.code = 200
    /\ LET id == Val(resp.user).id
       IN  /\ users[id].password_hash = Some(HashPassword(Secret99))
           /\ \E r \in password_resets : r.user_id = id /\ ~IsNull(r.used_at)

(* The passwords of the model that fail the strength policy *)
WeakPasswords == Passwords \ StrongPasswords

(* The token names a row that is unused and has not expired. *)
Redeemable(table, token) == getTokenUserID(table, token, now).err = "ok"

(* C13: ResetPassword with a valid, unexpired token but a new password   *)
(* that fails the strength policy returns an error, leaves the account's *)
(* password hash unchanged and leaves the token unconsumed, so a         *)
(* ResetPassword with the same token and a strong password that follows  *)
(* the refusal succeeds.                                                 *)
C13_WeakResetKeepsToken ==
    [][/\ \A t \in TokenStrings, p \in WeakPasswords :
              (Redeemable(password_resets, t) /\ resp'.op = "reset" /\ ResetPassword(t, p)) =>
                  /\ resp'.code = 400 /\ resp'.err # "ok"
                  /\ users' = users
                  /\ password_resets' = password_resets
                  /\ Redeemable(password_resets, t)'
       /\ \A t \in TokenStrings, p \in StrongPasswords :
              (/\ resp.op = "reset" /\ resp.code = 400
               /\ resp.err \in {"failed to hash password", "INVALID_REQUEST"}
               /\ Redeemable(password_resets, t)
               /\ resp'.op = "reset" /\ ResetPassword(t, p)) =>
                  /\ resp'.code = 200
                  /\ users'[ResetOwner(t)].password_hash = Some(HashPassword(p))
                  /\ ~Redeemable(password_resets, t)']_vars

(* A reset refused for the password alone while the token is redeemable *)
C13_Witness ==
    /\ resp.op = "reset" /\ resp.code = 400 /\ resp.err = "failed to hash password"
    /\ \E t \in TokenStrings : Redeemable(password_resets, t)
    /\ \A i \in UserIds : users[i].password_hash = Some(HashPassword(Passw0rd))

(* The account that owns the verification token *)
VerificationOwner(token) == RowOf(email_verifications, token).user_id

(* C14: if marking the token used fails after the dependent mutation     *)
(* succeeded, VerifyEmail / ResetPassword still reports success and the  *)
(* token stays valid; a call with a token that is unused and unexpired,  *)
(* such as the same token presented again, is accepted and carries out   *)
(* the mutation (at-least-once consumption).                             *)
C14_MarkFailureKeepsToken ==
    [][/\ \A t \in TokenStrings, m \in BOOLEAN :
              (/\ resp'.op = "verify"
               /\ Redeemable(email_verifications, t)
               /\ VerifyEmailWith(t, m)) =>
                  /\ resp'.code = 200
                  /\ users'[VerificationOwner(t)].email_verified
                  /\ ~m => /\ email_verifications' = email_verifications
                           /\ Redeemable(email_verifications, t)'
       /\ \A t \in TokenStrings, p \in StrongPasswords, m \in BOOLEAN :
              (/\ resp'.op = "reset"
               /\ Redeemable(password_resets, t)
               /\ ResetPasswordWith(t, p, m)) =>
                  /\ resp'.code = 200
                  /\ users'[ResetOwner(t)].password_hash = Some(HashPassword(p))
                  /\ ~m => /\ password_resets' = password_resets
                           /\ Redeemable(password_resets, t)']_vars

(* A reset answered with success although no reset token is marked used: *)
(* the password is the new one and the tokens can be presented again.    *)
C14_Witness ==
    /\ resp.op = "reset" /\ resp.code = 200
    /\ password_resets # {}
    /\ \A r \in password_resets : Redeemable(password_resets, r.token)
    /\ \E i \in UserIds : users[i].password_hash = Some(HashPassword(Secret99))

(* Another reset token of the owner of `token` has been consumed. *)
SiblingConsumed(token) ==
    \E r \in password_resets :
        /\ r.user_id = ResetOwner(token) /\ r.token # token /\ ~IsNull(r.used_at)

-----------------------------------------------------------------------------
(* Properties of a failed notification *)

(* No row of the table holds the token string. *)
FreshToken(table, token) == \A r \in table : r.token # token

(* C16: Register succeeds, persisting the account and its verification   *)
(* token and returning the account view with a token pair, even when     *)
(* sending the verification notification fails.                          *)
C16_RegisterDespiteSendFailure ==
    [][\A e \in Emails, u \in Usernames, p \in StrongPasswords, t \in TokenStrings :
          (/\ resp'.op = "register"
           /\ ~userExistsByEmail(e) /\ ~userExistsByUsername(u)
           /\ FreshToken(email_verifications, t)
           /\ Register(e, u, p, UserRoleFan, t, FALSE)) =>
              LET id == Len(users) + 1
              IN  /\ resp'.code = 201 /\ resp'.notified = "failed"
                  /\ Len(users') = id
                  /\ users'[id].email = e /\ users'[id].username = u
                  /\ users'[id].password_hash = Some(HashPassword(p))
                  /\ email_verifications' = email_verifications \cup
                         {TokenRow(id, t, now + VerificationExpiry)}
                  /\ Val(resp'.user) = ToResponse(id, users'[id])
                  /\ ValidateAccessToken(Val(resp'.bearer).access, now) = "ok"
                  /\ ValidateRefreshToken(Val(resp'.bearer).refresh, now) = "ok"
                  /\ Val(resp'.bearer).access.user_id = id]_vars

(* A registration answered 201 whose notification failed *)
C16_Witness ==
    /\ resp.op = "register" /\ resp.code = 201 /\ resp.notified = "failed"
    /\ Val(resp.user).id \in UserIds
    /\ \E r \in email_verifications : r.user_id = Val(resp.user).id

-----------------------------------------------------------------------------
(* Properties of the token pair *)

(* C18: ValidateAccessToken rejects every token minted as a refresh      *)
(* token and ValidateRefreshToken rejects every token minted as an       *)
(* access token, for every configuration of the two secrets, including   *)
(* the one in which the access secret and the refresh secret are the     *)
(* same string.                                                          *)
C18_WrongKindRejected ==
    [][/\ (resp'.op = "validate_access" /\ ValidateToken("access", "refresh")) =>
              resp'.code = 401 /\ resp'.err # "ok" /\ IsNull(resp'.user)
       /\ (resp'.op = "validate_refresh" /\ ValidateToken("refresh", "access")) =>
              resp'.code = 401 /\ resp'.err # "ok" /\ IsNull(resp'.user)]_vars

(* A token of the pair refused for its discriminator alone: the service  *)
(* has one secret for both kinds and the signature and the expiry pass.  *)
C18_Witness ==
    /\ resp.op \in {"validate_access", "validate_refresh"}
    /\ resp.err = "invalid token type"
    /\ accessSecret = refreshSecret

(* C19: ValidateAccess applied to an unexpired refresh token produced by *)
(* IssuePair fails with the WrongType error (discriminator mismatch),    *)
(* ValidateAccess applied to a token signed with a different secret      *)
(* fails with the Invalid error, and the two are distinct error kinds.   *)
C19_WrongTypeThenInvalid ==
    [][/\ (/\ resp.op = "issue" /\ now < Val(resp.bearer).refresh.exp
           /\ resp'.op = "validate_access"
           /\ ValidateToken("access", "refresh")) =>
              resp'.err = "invalid token type"
       /\ (/\ resp.op = "foreign"
           /\ resp'.op = "validate_access"
           /\ ValidateToken("access", "access")) =>
              resp'.err = "failed to parse token"]_vars

(* C20: for every account u, ValidateAccessToken on the access token of  *)
(* GenerateTokenPair(u) and ValidateRefreshToken on its refresh token    *)
(* both succeed before expiry and return claims whose user id, email and *)
(* role equal those of u.                                                *)
C20_PairRoundTrip ==
    [][\A k \in {"access", "refresh"} :
          (/\ resp.op = "issue" /\ now < Bearer(k).exp
           /\ resp'.op = (IF k = "access" THEN "validate_access" ELSE "validate_refresh")
           /\ ValidateToken(k, k)) =>
              LET id == Val(resp.user).id
              IN  /\ resp'.code = 200 /\ resp'.err = "ok"
                  /\ Val(resp'.user).user_id = id
                  /\ Val(resp'.user).email = users[id].email
                  /\ Val(resp'.user).role = users[id].role
                  /\ Val(resp'.user).token_type = k]_vars

(* A refresh token validated after the access token of its pair expired, *)
(* returning the claims of an administrator.                             *)
C20_Witness ==
    /\ resp.op = "validate_refresh" /\ resp.code = 200
    /\ Val(resp.user).role = UserRoleAdmin
    /\ now >= Val(resp.bearer).access.exp
    /\ accessSecret # refreshSecret

-----------------------------------------------------------------------------
(* Properties of the session: the lifetimes of the tokens and the refresh *)

(* The exchange holds a pair that a Register, a Login or a chain of      *)
(* refreshes of this service produced.                                   *)
SessionPair == ~IsNull(resp.bearer) /\ resp.op # "stale"

(* The time of the Register or Login that minted the refresh token *)
SessionStart(pair) == pair.refresh.exp - refreshExpiry

(* The lifetimes of the pair in the exchange: the access token is        *)
(* accepted only before its exp, which is at most 24 hours after the     *)
(* refresh token's exp, i.e. 7 days + 24 hours after the session began.  *)
SessionBounded ==
    SessionPair =>
        LET pair == Val(resp.bearer)
        IN  /\ pair.expires_at = pair.access.exp
            /\ pair.access.exp <= pair.refresh.exp + accessExpiry
            /\ SessionStart(pair) >= 0 /\ SessionStart(pair) <= now
            /\ JWTMiddleware(pair.access, now) = "ok" =>
                   /\ now < pair.access.exp
                   /\ now < SessionStart(pair) + refreshExpiry + accessExpiry
            /\ ValidateRefreshToken(pair.refresh, now) = "ok" =>
                   now < SessionStart(pair) + refreshExpiry

(* What Register, Login and RefreshToken mint, and when the protected    *)
(* routes and RefreshToken accept.                                       *)
SessionMinting ==
    /\ (resp'.op \in {"register", "login"} /\ resp' # resp /\ ~IsNull(resp'.bearer)) =>
           LET pair == Val(resp'.bearer)
           IN  /\ pair.access.exp = now + accessExpiry
               /\ pair.refresh.exp = now + refreshExpiry
               /\ pair.expires_at = pair.access.exp
    /\ (resp'.op = "refresh" /\ resp'.code = 200 /\ RefreshToken("refresh")) =>
           LET pair == Val(resp'.bearer)
           IN  /\ now < Val(resp.bearer).refresh.exp
               /\ pair.refresh = Val(resp.bearer).refresh
               /\ pair.access.exp = now + accessExpiry
               /\ pair.expires_at = pair.access.exp
    /\ (resp'.op = "profile" /\ resp'.code # 401 /\ GetProfile("access")) =>
           now < Val(resp.bearer).access.exp

(* C21: an access token is accepted only until 24 hours after it was     *)
(* minted and a refresh token only until 7 days after it was minted, and *)
(* the expiry returned to the client equals the access token's expiry;   *)
(* RefreshToken never mints a new refresh token, so no chain of          *)
(* RefreshToken calls started from one Login or Register yields an       *)
(* access token that is still accepted later than 7 days + 24 hours      *)
(* after that Login or Register.                                         *)
C21_SessionLifetime == []SessionBounded /\ [][SessionMinting]_vars

(* The profile read with an access token of the chain after the refresh  *)
(* token of the session has expired                                      *)
C21_Witness ==
    /\ resp.op = "profile" /\ resp.code = 200
    /\ now >= Val(resp.bearer).refresh.exp
    /\ Val(resp.bearer).access.exp > refreshExpiry

(* The refresh token is signed by this service, unexpired, and its       *)
(* account is stored and active.                                         *)
Refreshable(tok) ==
    /\ ValidateRefreshToken(tok, now) = "ok"
    /\ tok.user_id \in UserIds
    /\ users[tok.user_id].status = UserStatusActive

(* C22: RefreshToken returns the very refresh token it was given with a  *)
(* newly minted access token, changes nothing in the store, and the same *)
(* refresh token presented again succeeds again, each time, until the    *)
(* refresh token's own expiry: the call succeeds exactly when the token  *)
(* is unexpired and its account active, however often it was used.       *)
C22_NoRotation ==
    [][ (resp'.op = "refresh" /\ now' = now /\ SessionPair /\ RefreshToken("refresh")) =>
            LET tok == Val(resp.bearer).refresh
            IN  /\ (resp'.code = 200) = Refreshable(tok)
                /\ resp'.code = 200 =>
                       /\ Val(resp'.bearer).refresh = tok
                       /\ Val(resp'.bearer).access.token_type = "access"
                       /\ Val(resp'.bearer).access.exp = now + accessExpiry
                       /\ JWTMiddleware(Val(resp'.bearer).access, now) = "ok"
                       /\ RefreshTokenErr(tok)' = "ok"
                       /\ UNCHANGED <<users, email_verifications, password_resets>>
      ]_vars

(* A refresh that succeeded in the last hour of the refresh token *)
C22_Witness ==
    /\ resp.op = "refresh" /\ resp.code = 200
    /\ now = Val(resp.bearer).refresh.exp - ResetExpiry
    /\ Val(resp.bearer).access.exp = now + accessExpiry

(* C23: the access token minted by a refresh carries exactly the user    *)
(* id, email and role of the presented refresh token's claims; when the  *)
(* stored role or email changed after the refresh token was issued, the  *)
(* new access token still carries the old values while the account view  *)
(* returned beside it shows the stored ones.                             *)
C23_ClaimsFromRefreshToken ==
    [][ (resp'.op = "refresh" /\ resp'.code = 200 /\ now' = now
         /\ RefreshToken("refresh")) =>
            LET tok    == Val(resp.bearer).refresh
                access == Val(resp'.bearer).access
                view   == Val(resp'.user)
            IN  /\ access.user_id = tok.user_id
                /\ access.email = tok.email
                /\ access.role = tok.role
                /\ view.id = tok.user_id
                /\ view.email = users[tok.user_id].email
                /\ view.role = users[tok.user_id].role
      ]_vars

(* A refresh after the account's role and email were changed: the view   *)
(* shows the new values, the access token the old ones.                  *)
C23_Witness ==
    /\ resp.op = "refresh" /\ resp.code = 200
    /\ Val(resp.user).role = UserRoleAdmin
    /\ Val(resp.bearer).access.role = UserRoleFan
    /\ Val(resp.user).email = "carol@example.com"
    /\ Val(resp.bearer).access.email = "alice@example.com"

(* C24: RefreshToken fails and returns no access token whenever the      *)
(* account named by the refresh token's claims does not exist or has a   *)
(* status other than active, although the refresh token is correctly     *)
(* signed and unexpired.                                                 *)
C24_RefreshNeedsActiveAccount ==
    [][ (resp'.op = "refresh" /\ now' = now
         /\ ~IsNull(resp.bearer)
         /\ ValidateRefreshToken(Val(resp.bearer).refresh, now) = "ok"
         /\ ~Refreshable(Val(resp.bearer).refresh)
         /\ RefreshToken("refresh")) =>
            /\ resp'.code = 401
            /\ resp'.err \in {"failed to get user", "account is not active"}
            /\ IsNull(resp'.user)
            /\ resp'.bearer = resp.bearer
      ]_vars

(* The refresh refused for a suspended account whose refresh token is    *)
(* still valid                                                           *)
C24_Witness ==
    /\ resp.op = "refresh" /\ resp.code = 401
    /\ resp.err = "account is not active"
    /\ ValidateRefreshToken(Val(resp.bearer).refresh, now) = "ok"
    /\ users[Val(resp.bearer).refresh.user_id].status # UserStatusActive

(* The refresh refused for an account the store does not hold *)
C24_WitnessMissing ==
    /\ resp.op = "refresh" /\ resp.code = 401
    /\ resp.err = "failed to get user"
    /\ ValidateRefreshToken(Val(resp.bearer).refresh, now) = "ok"
    /\ Val(resp.bearer).refresh.user_id \notin UserIds

(* The account of the token pair in the exchange is stored, active and   *)
(* not verified.                                                         *)
UnverifiedSession ==
    /\ SessionPair
    /\ Val(resp.bearer).refresh.user_id \in UserIds
    /\ users[Val(resp.bearer).refresh.user_id].status = UserStatusActive
    /\ ~users[Val(resp.bearer).refresh.user_id].email_verified

(* The exchange is a successful registration whose account is not       *)
(* verified, whose access token the middleware accepts, whose refresh    *)
(* token passes the checks of RefreshToken, and whose login is refused   *)
(* for the missing verification.                                         *)
RegisteredPairWorks ==
    LET pair == Val(resp.bearer)
        view == Val(resp.user)
    IN  /\ ~users[view.id].email_verified
        /\ pair.access.user_id = view.id
        /\ pair.refresh.user_id = view.id
        /\ JWTMiddleware(pair.access, now) = "ok"
        /\ RefreshTokenErr(pair.refresh) = "ok"
        /\ LoginUserErr(view.email, Passw0rd) = "please verify your email before logging in"

(* C26: a successful Register returns, for the still-unverified account, *)
(* an access token that JWTMiddleware accepts on the protected routes    *)
(* and a refresh token that RefreshToken accepts; the email-verified     *)
(* flag gates Login only.                                                *)
C26_UnverifiedTokensWork ==
    [][ /\ (resp'.op = "register" /\ resp'.code = 201 /\ resp' # resp) =>
               RegisteredPairWorks'
        /\ (resp'.op = "profile" /\ UnverifiedSession
            /\ now < Val(resp.bearer).access.exp /\ GetProfile("access")) =>
               /\ resp'.code = 200
               /\ ~Val(resp'.user).email_verified
        /\ (resp'.op = "refresh" /\ now' = now /\ UnverifiedSession
            /\ now < Val(resp.bearer).refresh.exp /\ RefreshToken("refresh")) =>
               /\ resp'.code = 200
               /\ ~Val(resp'.user).email_verified
               /\ JWTMiddleware(Val(resp'.bearer).access, now) = "ok"
      ]_vars

(* The refresh that succeeded for the unverified account with the pair   *)
(* of its registration, after the access token of the registration       *)
(* expired                                                               *)
C26_Witness ==
    /\ resp.op = "refresh" /\ resp.code = 200
    /\ ~Val(resp.user).email_verified
    /\ ~users[Val(resp.user).id].email_verified
    /\ now >= SessionStart(Val(resp.bearer)) + accessExpiry

(* The profile read by the unverified account *)
C26_WitnessProfile ==
    /\ resp.op = "profile" /\ resp.code = 200
    /\ ~Val(resp.user).email_verified

(* The access tokens a Register or Login of the first account can have   *)
(* minted in the first 24 hours.                                         *)
IssuedAccessTokens ==
    {GenerateTokenPair(1, NewAuthUser("alice@example.com", "alice", Passw0rd, UserRoleFan),
                       t).access : t \in 0..accessExpiry}

(* Acceptance is a matter of the token and the clock alone. *)
AcceptedUntilExpiry ==
    \A tok \in IssuedAccessTokens :
        /\ (JWTMiddleware(tok, now) = "ok") = (now < tok.exp)
        /\ ValidateAccessToken(tok, now) = JWTMiddleware(tok, now)

(* C25: tokens are not revocable on the server: an access token issued   *)
(* before the account was soft-deleted or suspended, before Logout, or   *)
(* before a password reset is still accepted by ValidateAccessToken and  *)
(* JWTMiddleware until its own expiry, and Logout changes no server      *)
(* state.  No step but the passing of time changes the acceptance of a   *)
(* token, and the protected route answers whatever the account's status. *)
C25_NotRevocable ==
    /\ []AcceptedUntilExpiry
    /\ [][ /\ now' = now =>
                 \A tok \in IssuedAccessTokens :
                     JWTMiddleware(tok, now)' = JWTMiddleware(tok, now)
           /\ (resp'.op = "logout" /\ Logout) =>
                 /\ UNCHANGED <<users, email_verifications, password_resets, now, config>>
                 /\ resp'.bearer = resp.bearer
                 /\ (resp'.code = 200) = (now < Val(resp.bearer).access.exp)
           /\ (resp'.op = "profile" /\ SessionPair
               /\ now < Val(resp.bearer).access.exp /\ GetProfile("access")) =>
                 resp'.code = 200
         ]_vars

(* The profile read with the token of an account that was suspended or   *)
(* soft-deleted after the token was issued                               *)
C25_Witness ==
    /\ resp.op = "profile" /\ resp.code = 200
    /\ users[Val(resp.user).id].status # UserStatusActive

(* After the password reset the token of the registration is accepted *)
C25_WitnessReset ==
    /\ resp.op = "reset" /\ resp.code = 200
    /\ Val(users[1].password_hash) = HashPassword(Secret99)
    /\ \E tok \in IssuedAccessTokens : tok.exp = accessExpiry /\ JWTMiddleware(tok, now) = "ok"

(* After the logout the token is accepted *)
C25_WitnessLogout ==
    /\ resp.op = "logout" /\ resp.code = 200
    /\ JWTMiddleware(Val(resp.bearer).access, now) = "ok"

-----------------------------------------------------------------------------
(* Properties of the account rows *)

(* C27: in every reachable state every account row has a non-empty       *)
(* password hash, whichever creation path produced it (POST              *)
(* /auth/register or POST /users) and after any later password reset or  *)
(* profile update.                                                       *)
C27_PasswordHashNeverEmpty ==
    \A i \in UserIds : ~IsNull(users[i].password_hash)

(* The roles an account may have *)
ValidRoles ==
    {UserRoleAdmin, UserRoleModerator, UserRoleProducer, UserRoleArtist, UserRoleFan}

(* Register with a role outside the valid ones: refused with 400 before  *)
(* any store access, whatever the rest of the draft.                     *)
InvalidRoleRefused(e, p, r) ==
    /\ resp'.code = 400
    /\ resp'.err \in {"INVALID_ROLE", "INVALID_REQUEST"}
    /\ IsNull(resp'.user) /\ IsNull(resp'.bearer)
    /\ resp'.notified = "none"
    /\ UNCHANGED <<users, email_verifications, password_resets, registered>>

(* C28 as stated: Register rejects a draft whose role is not one of      *)
(* admin, moderator, producer, artist, fan (the legacy role buyer        *)
(* included) with the invalid-role error before any store access, so no  *)
(* account or verification token is created and every account created by *)
(* Register has a role in that set.                                      *)
C28_InvalidRoleError ==
    [][\A e \in Emails, r \in DraftRoles \ ValidRoles :
          (resp'.op = "register" /\ Register(e, UsernameOf(e), Passw0rd, r, TokenOf(e), TRUE)) =>
              /\ InvalidRoleRefused(e, Passw0rd, r)
              /\ resp'.err = "INVALID_ROLE"
      ]_vars

(* C28, amended: the refusal happens before any store access and creates *)
(* nothing; the error is the invalid-role error when the draft passes    *)
(* the request binding, which of the invalid roles only buyer can, and    *)
(* the invalid-request error of the binding otherwise; every account     *)
(* created by Register has a valid role.                                 *)
C28_InvalidRoleRefused ==
    /\ [](\A i \in UserIds : users[i].role \in ValidRoles)
    /\ [][\A e \in Emails, p \in {Passw0rd, short1A}, r \in DraftRoles \ ValidRoles :
            (resp'.op = "register" /\ Register(e, UsernameOf(e), p, r, TokenOf(e), TRUE)) =>
                /\ InvalidRoleRefused(e, p, r)
                /\ (resp'.err = "INVALID_ROLE") = (r = UserRoleBuyer /\ p = Passw0rd)
        ]_vars

(* A buyer draft refused with the invalid-role error while an account    *)
(* registered with a valid role exists                                   *)
C28_Witness ==
    /\ resp.op = "register" /\ resp.code = 400 /\ resp.err = "INVALID_ROLE"
    /\ Len(users) = 1

(* C29: once an account's email_verified flag is true, no operation sets *)
(* it back to false: not a change of the account's email through a       *)
(* profile update, a password reset, a soft delete, a login, nor a        *)
(* further VerifyEmail.                                                  *)
C29_VerifiedForGood ==
    [][\A i \in UserIds :
           users[i].email_verified =>
               /\ i \in DOMAIN users'
               /\ users'[i].email_verified
      ]_vars

(* The verified account after its email was changed, its password reset  *)
(* and its status set to inactive                                        *)
C29_Witness ==
    /\ 1 \in UserIds
    /\ users[1].email_verified
    /\ users[1].email = "carol@example.com"
    /\ users[1].status = UserStatusInactive
    /\ Val(users[1].password_hash) = HashPassword(Secret99)

(* A further VerifyEmail with the redeemed token was answered *)
C29_WitnessAgain ==
    /\ resp.op = "verify" /\ resp.code # 200
    /\ 1 \in UserIds /\ users[1].email_verified

(* The effect C30 describes, on account id: the row is kept with status  *)
(* inactive and its email and username, Login and RefreshToken are       *)
(* refused and a Register with its email or its username meets the       *)
(* conflict error.                                                       *)
SoftDeleted(id) ==
    /\ id \in UserIds
    /\ users[id].status = UserStatusInactive
    /\ LoginUserErr(users[id].email, Passw0rd) # "ok"
    /\ RegisterUserErr(users[id].email, "dave", Passw0rd)
           = "user with this email already exists"
    /\ RegisterUserErr("dave@example.com", users[id].username, Passw0rd)
           = "username already taken"
    /\ RefreshTokenErr(GenerateTokenPair(id, users[id], now).refresh) # "ok"

(* What DeleteUser leaves alone in every case: the number of rows and    *)
(* every column but the status of the account it names.                  *)
RowsKept(id) ==
    /\ Len(users') = Len(users)
    /\ \A i \in UserIds :
           /\ i # id => users'[i] = users[i]
           /\ users'[i] = [users[i] EXCEPT !.status = users'[i].status]
           /\ users'[i].status \in {users[i].status, UserStatusInactive}

(* C30: DeleteUser never removes an account row: it only sets the status *)
(* to inactive, after which Login and RefreshToken for that account      *)
(* fail, and the account's email and username remain reserved so that a  *)
(* new Register using either of them fails with the conflict error.      *)
(* The request is DELETE /users/:id for a stored account, presented with *)
(* an access token the middleware accepts.                               *)
C30_DeleteDeactivates ==
    [][\A id \in 1..MaxUsers :
          (resp'.op = "delete_user" /\ id \in UserIds /\ Authorized /\ DeleteUser(id)) =>
              /\ RowsKept(id)
              /\ resp'.code = 200
              /\ SoftDeleted(id)'
      ]_vars

(* The part of C30 that holds: whenever DeleteUser answers 200 the row   *)
(* is kept, only its status changed to inactive, and Login, RefreshToken *)
(* and Register behave as described; when it fails nothing changed.      *)
C30_DeleteWhenItSucceeds ==
    [][\A id \in 1..MaxUsers :
          (resp'.op = "delete_user" /\ DeleteUser(id)) =>
              /\ RowsKept(id)
              /\ resp'.code = 200 => SoftDeleted(id)'
              /\ resp'.code # 200 => UNCHANGED users
      ]_vars

(* DeleteUser answered 200 *)
C30_WitnessDeleted ==
    /\ resp.op = "delete_user" /\ resp.code = 200
    /\ \E i \in UserIds : users[i].status = UserStatusInactive

(* DeleteUser refused for the registered account *)
C30_WitnessRefused ==
    /\ resp.op = "delete_user" /\ resp.code = 500
    /\ Val(resp.bearer).access.user_id \in UserIds

-----------------------------------------------------------------------------
(* Properties of the profile update *)

ProfileFields == {"email", "username", "first_name", "last_name", "role", "status"}

(* The row of the account after the update has the requested value in    *)
(* every field the request carries and the old value in every other      *)
(* column but updated_at; the other accounts are unchanged.              *)
OnlyRequestedFields(uid, q) ==
    /\ Len(users') = Len(users)
    /\ \A i \in UserIds : i # uid => users'[i] = users[i]
    /\ \A f \in DOMAIN users[uid] \ {"updated_at"} :
           users'[uid][f] = IF f \in ProfileFields /\ ~IsNull(q[f])
                            THEN Val(q[f]) ELSE users[uid][f]

(* C31: the profile update (PUT /auth/profile) changes exactly the       *)
(* fields present in the request among email, username, first name, last *)
(* name, role and status, leaves every absent field unchanged, and bumps *)
(* updated_at on every call, including a call whose request provides     *)
(* none of the fields.                                                    *)
C31_UpdateFieldsAndBump ==
    [][\A q \in ProfileRequests :
          (resp'.op = "update_profile" /\ resp'.code = 200 /\ UpdateProfile(q)) =>
              LET uid == Val(resp.bearer).access.user_id
              IN  /\ OnlyRequestedFields(uid, q)
                  /\ users'[uid].updated_at = now
      ]_vars

(* The part of C31 that holds: the fields, and updated_at for a request  *)
(* that carries a field; a request without fields leaves the row as it   *)
(* is, updated_at included.                                              *)
C31_UpdateFieldsBumpIfAny ==
    [][\A q \in ProfileRequests :
          (resp'.op = "update_profile" /\ resp'.code = 200 /\ UpdateProfile(q)) =>
              LET uid == Val(resp.bearer).access.user_id
              IN  /\ OnlyRequestedFields(uid, q)
                  /\ users'[uid].updated_at =
                         IF HasUpdates(q) THEN now ELSE users[uid].updated_at
      ]_vars

(* An update of some fields answered after the clock moved *)
C31_WitnessBumped ==
    /\ resp.op = "update_profile" /\ resp.code = 200
    /\ users[1].updated_at = now /\ now > 0
    /\ users[1].role = UserRoleAdmin /\ users[1].first_name = "Test"

(* An update without fields answered 200 after the clock moved: the row  *)
(* keeps its updated_at                                                  *)
C31_WitnessNotBumped ==
    /\ resp.op = "update_profile" /\ resp.code = 200
    /\ users[1].updated_at < now
    /\ users[1] = TimedAccount("alice@example.com")

-----------------------------------------------------------------------------
(* Properties of the password strength policy *)

(* The password has at least 8 characters, an uppercase letter, a        *)
(* lowercase letter and a digit, and its lower-cased form is not in the  *)
(* denylist.                                                             *)
PolicyAccepts(pw) ==
    /\ Len(pw) >= minLength
    /\ \E i \in 1..Len(pw) : pw[i] \in UpperChars
    /\ \E i \in 1..Len(pw) : pw[i] \in LowerChars
    /\ \E i \in 1..Len(pw) : pw[i] \in DigitChars
    /\ ToLower(pw) \notin commonPasswords

(* A password the policy refuses yields an error and no hash, and a      *)
(* Register or ResetPassword carrying it changes no stored state.        *)
RefusedChangesNothing ==
    /\ \A p \in PolicyPasswords :
          (resp'.op = "hash" /\ ValidatePassword(p) # "ok" /\ HashPasswordCall(p)) =>
              IsNull(resp'.user) /\ resp'.err # "ok"
    /\ \A p \in PolicyPasswords :
          (resp'.op = "register" /\ ValidatePassword(p) # "ok"
           /\ Register("alice@example.com", "alice", p, UserRoleFan, "tokA", TRUE)) =>
              /\ resp'.code = 400
              /\ UNCHANGED <<users, email_verifications, password_resets, registered>>
    /\ \A p \in PolicyPasswords :
          (resp'.op = "reset" /\ ValidatePassword(p) # "ok" /\ ResetPassword("tokB", p)) =>
              /\ resp'.code = 400
              /\ UNCHANGED <<users, email_verifications, password_resets, registered>>

(* C32: HashPassword accepts a password exactly when it has at least 8   *)
(* characters, contains an uppercase letter, a lowercase letter and a    *)
(* digit, and its lower-cased form is not in the fixed denylist; for     *)
(* every other password it returns an error and produces no hash, and a  *)
(* Register or ResetPassword carrying it changes no stored state.        *)
C32_HashPasswordPolicy ==
    [][/\ \A p \in PolicyPasswords :
             (resp'.op = "hash" /\ HashPasswordCall(p)) =>
                 /\ (resp'.err = "ok") = PolicyAccepts(p)
                 /\ PolicyAccepts(p) => resp'.user = Some(HashPassword(p))
                 /\ ~PolicyAccepts(p) => IsNull(resp'.user)
       /\ RefusedChangesNothing
      ]_vars

(* The part of C32 that holds: the same with the length counted in       *)
(* bytes, which is the number of characters for an ASCII password.       *)
C32_HashPasswordPolicyBytes ==
    [][/\ \A p \in PolicyPasswords :
             (resp'.op = "hash" /\ HashPasswordCall(p)) =>
                 /\ (resp'.err = "ok") = (PolicyAccepts(p) \/ p = Paessw0)
                 /\ (\A i \in 1..Len(p) : p[i] \notin TwoByteChars) =>
                        (resp'.err = "ok") = PolicyAccepts(p)
       /\ RefusedChangesNothing
      ]_vars

(* HashPassword produced a hash for a password of seven characters *)
C32_WitnessSeven ==
    /\ resp.op = "hash" /\ resp.err = "ok"
    /\ Len(Val(resp.user).of) < minLength

(* A Register refused for a denylisted password of mixed case *)
C32_WitnessRefused ==
    /\ resp.op = "register" /\ resp.code = 400
    /\ resp.err = "failed to hash password" /\ users = <<>>

(* The messages of the rules *)
MinLengthRule == "password must be at least 8 characters long"
UppercaseRule == "password must contain at least one uppercase letter"
DenylistRule == "password is too common, please choose a stronger password"

(* C33 as stated: the rule reported for a rejected password identifies   *)
(* the violated rule: for the fixture "password" the reported violation  *)
(* is the denylist (common password) rule, and for the fixture "short1A" *)
(* it is the minimum-length rule.                                        *)
C33_FixtureRules ==
    [][/\ (resp'.op = "hash" /\ HashPasswordCall(password)) => resp'.err = DenylistRule
       /\ (resp'.op = "hash" /\ HashPasswordCall(short1A)) => resp'.err = MinLengthRule
      ]_vars

(* C33, amended: the rule reported is the first violated one in the      *)
(* order length, uppercase, lowercase, digit, denylist: for "password"   *)
(* it is the uppercase rule, for "short1A" the minimum-length rule, and  *)
(* the denylist rule is reported only for a password that passes the     *)
(* other four, such as "Password123".                                    *)
C33_FirstViolatedRule ==
    [][/\ (resp'.op = "hash" /\ HashPasswordCall(password)) => resp'.err = UppercaseRule
       /\ (resp'.op = "hash" /\ HashPasswordCall(short1A)) => resp'.err = MinLengthRule
       /\ (resp'.op = "hash" /\ HashPasswordCall(Password123)) => resp'.err = DenylistRule
       /\ \A p \in PolicyPasswords :
             (resp'.op = "hash" /\ HashPasswordCall(p)) =>
                 /\ (resp'.err = MinLengthRule) = (len(p) < minLength)
                 /\ (resp'.err = UppercaseRule) = (len(p) >= minLength /\ ~hasUpperCase(p))
                 /\ (resp'.err = DenylistRule) =
                        (/\ len(p) >= minLength /\ hasUpperCase(p) /\ hasLowerCase(p)
                         /\ hasDigit(p) /\ isCommonPassword(p))
      ]_vars

(* HashPassword refused a password for its missing uppercase letter *)
C33_Witness ==
    /\ resp.op = "hash" /\ resp.err = UppercaseRule
    /\ IsNull(resp.user)

-----------------------------------------------------------------------------
(* Properties of the token generator *)

(* The reset token strings generated so far for stored rows *)
StoredResetTokens == {r.token : r \in password_resets}

(* C34: any two ephemeral tokens produced by the generator, for the same *)
(* account or for different accounts, are distinct strings, whatever the *)
(* clock values at which their characters are generated; in particular   *)
(* two ForgotPassword calls for one account never store the same token   *)
(* string.  Stated of the ForgotPassword calls: the string generated for *)
(* a call differs from every string generated for an earlier call, and   *)
(* the call stores it.                                                   *)
C34_TokensDistinct ==
    [][\A e \in Emails, ns \in Readings :
          (resp'.op = "forgot" /\ IdsByEmail(e) # {}
           /\ ForgotPassword(e, generateRandomString(TokenLength, ns), TRUE)) =>
              /\ generateRandomString(TokenLength, ns) \notin StoredResetTokens
              /\ resp'.code = 200
      ]_vars

(* What the UNIQUE constraint keeps: no two rows of a table hold the     *)
(* same token string.                                                    *)
C34_StoredTokensUnique ==
    /\ \A r1, r2 \in password_resets : r1.token = r2.token => r1 = r2
    /\ \A r1, r2 \in email_verifications : r1.token = r2.token => r1 = r2

(* A ForgotPassword refused because the generator returned a stored string *)
C34_WitnessCollision ==
    /\ resp.op = "forgot" /\ resp.err = "failed to store reset token"

-----------------------------------------------------------------------------
(* Properties of the protected routes *)

(* The header is 'Bearer ' followed by a token of the pair held that    *)
(* ValidateAccessToken accepts now.                                      *)
BearerAccepted(scheme, which) ==
    /\ scheme = "Bearer "
    /\ which \in {"access", "refresh"}
    /\ ValidateAccessToken(Bearer(which), now) = "ok"

(* C35: a handler on a protected route runs only when the Authorization  *)
(* header is 'Bearer ' followed by a token that ValidateAccessToken      *)
(* accepts, and then the user id, email and role of the request context  *)
(* equal the claims of that token; a missing header, a header without    *)
(* the Bearer prefix, an expired or wrongly signed token and a refresh   *)
(* token all end the request with 401 before the handler runs.           *)
C35_ProtectedRoutes ==
    [][\A s \in Schemes, w \in HeaderTokens :
          (resp'.op = "profile_request" /\ GetProfileRequest(s, w)) =>
              LET mw == JWTMiddlewareHeader(HeaderOf(s, w), now)
              IN  /\ (mw.code = 200) = BearerAccepted(s, w)
                  /\ mw.code # 200 => /\ mw.code = 401 /\ resp'.code = 401
                                      /\ IsNull(mw.context) /\ IsNull(resp'.user)
                  /\ mw.code = 200 =>
                        /\ Val(mw.context).user_id = Bearer(w).user_id
                        /\ Val(mw.context).user_email = Bearer(w).email
                        /\ Val(mw.context).user_role = Bearer(w).role
                        /\ resp'.code \in {200, 404}
                        /\ resp'.code = 200 => Val(resp'.user).id = Bearer(w).user_id
                  /\ w = "missing" => resp'.code = 401
                  /\ s # "Bearer " => resp'.code = 401
                  /\ (w = "refresh" /\ Bearer(w).token_type = "refresh") => resp'.code = 401
                  /\ (w = "access" /\ Bearer(w).exp <= now) => resp'.code = 401
                  /\ (w = "access" /\ Bearer(w).key # accessSecret) => resp'.code = 401
      ]_vars

(* The handler has run for a Bearer access token *)
C35_Witness ==
    /\ resp.op = "profile_request" /\ resp.code = 200
    /\ ValidateAccessToken(Bearer("access"), now) = "ok"

(* An expired access token of the service refused *)
C35_WitnessExpired ==
    /\ resp.op = "profile_request" /\ resp.code = 401
    /\ resp.err = "failed to parse token"
    /\ Bearer("access").key = accessSecret
    /\ Bearer("access").exp <= now

(* A header refused for its prefix while the pair held is good *)
C35_WitnessPrefix ==
    /\ resp.op = "profile_request" /\ resp.code = 401
    /\ resp.err = "Authorization header must start with 'Bearer '"
    /\ ValidateAccessToken(Bearer("access"), now) = "ok"

-----------------------------------------------------------------------------
(* Properties of a registration that fails *)

(* C36: whenever RegisterUser returns an error, no account row and no    *)
(* verification-token row created by that call remains in the store: a   *)
(* registration that reports failure at any step leaves users and        *)
(* email_verifications as they were, so the same email and username can  *)
(* be registered afterwards.                                             *)
C36_FailedRegistrationLeavesNothing ==
    [][(resp'.op = "register" /\ resp'.code # 201 /\ now' = now) =>
          /\ users' = users
          /\ email_verifications' = email_verifications
      ]_vars

(* What holds: a registration refused before the account is inserted     *)
(* leaves both tables as they were.                                      *)
C36_RefusedBeforeInsert ==
    [][(resp'.op = "register" /\ resp'.code # 201 /\ now' = now
        /\ resp'.err # "failed to store verification token") =>
          /\ users' = users
          /\ email_verifications' = email_verifications
      ]_vars

(* A registration that reported failure and left its account behind:     *)
(* the account has no verification token and its email is taken.         *)
C36_WitnessOrphan ==
    /\ resp.op = "register" /\ resp.code = 400
    /\ resp.err = "failed to store verification token"
    /\ \E id \in UserIds : \A r \in email_verifications : r.user_id # id

-----------------------------------------------------------------------------
(* The frame of VerifyEmail and ResetPassword *)

(* The rows of a token table after a redeem of `token`: every row is     *)
(* kept, and only rows holding the token may have got the time.          *)
TokenFrame(before, after, token) ==
    /\ \A r \in before : r.token # token => r \in after
    /\ \A r2 \in after : \E r \in before :
          /\ r2.user_id = r.user_id /\ r2.token = r.token
          /\ r2.expires_at = r.expires_at
          /\ r2 = r \/ (r.token = token /\ r2.used_at = Some(now))
    /\ Cardinality(after) = Cardinality(before)

(* The accounts after a redeem by the account id: only the column col of *)
(* that account may differ.                                              *)
UsersFrame(col, id) ==
    /\ DOMAIN users' = DOMAIN users
    /\ \A i \in DOMAIN users :
          /\ DOMAIN users'[i] = DOMAIN users[i]
          /\ \A f \in DOMAIN users[i] : (i # id \/ f # col) => users'[i][f] = users[i][f]

VerifyFrame(t) ==
    LET got == getTokenUserID(email_verifications, t, now)
    IN  /\ password_resets' = password_resets
        /\ TokenFrame(email_verifications, email_verifications', t)
        /\ IF got.err = "ok"
           THEN /\ UsersFrame("email_verified", got.user_id)
                /\ users'[got.user_id].email_verified
                /\ \A r \in email_verifications' : r.token = t => ~IsNull(r.used_at)
                /\ resp'.code = 200
           ELSE /\ users' = users /\ email_verifications' = email_verifications
                /\ resp'.code = 400

ResetFrame(t, p) ==
    LET got == getTokenUserID(password_resets, t, now)
    IN  /\ email_verifications' = email_verifications
        /\ TokenFrame(password_resets, password_resets', t)
        /\ IF got.err = "ok" /\ ValidatePassword(p) = "ok"
           THEN /\ UsersFrame("password_hash", got.user_id)
                /\ users'[got.user_id].password_hash = Some(HashPassword(p))
                /\ \A r \in password_resets' : r.token = t => ~IsNull(r.used_at)
                /\ resp'.code = 200
           ELSE /\ users' = users /\ password_resets' = password_resets
                /\ resp'.code = 400

(* C37: VerifyEmail(token) changes only the owning account's             *)
(* email_verified flag (and updated_at) and that token's consumed        *)
(* timestamp; ResetPassword(token, p) changes only the owning account's  *)
(* password hash (and updated_at) and that token's consumed timestamp.   *)
(* Neither changes any other account, any other token, or the owning     *)
(* account's email, role or status, and neither requires the account to  *)
(* be active.                                                            *)
C37_RedeemFrame ==
    [][\A t \in TokenStrings :
          /\ (resp'.op = "verify" /\ VerifyEmail(t)) => VerifyFrame(t)
          /\ \A p \in {Secret99, password} :
                (resp'.op = "reset" /\ ResetPassword(t, p)) => ResetFrame(t, p)
      ]_vars

(* The password of an inactive account has been reset while the other    *)
(* account and other tokens exist.                                       *)
C37_Witness ==
    /\ resp.op = "reset" /\ resp.code = 200
    /\ Len(users) = 2
    /\ \E i \in UserIds :
          /\ users[i].status = UserStatusInactive
          /\ users[i].password_hash = Some(HashPassword(Secret99))
    /\ \E r \in password_resets : IsNull(r.used_at)
    /\ email_verifications # {}

(* The email of an inactive account has been verified while the other    *)
(* account is unverified.                                                *)
C37_WitnessVerify ==
    /\ resp.op = "verify" /\ resp.code = 200
    /\ Len(users) = 2
    /\ \E i, j \in UserIds :
          /\ users[i].status = UserStatusInactive /\ users[i].email_verified
          /\ ~users[j].email_verified
    /\ \E r \in email_verifications : IsNull(r.used_at)

-----------------------------------------------------------------------------
(* Properties of a deactivated account *)

(* C38: once an account has been soft-deleted (status inactive), no      *)
(* sequence of requests authenticated as that account makes its status   *)
(* active again: an access token the account obtained before the         *)
(* deletion cannot be used on PUT /auth/profile to set status back to    *)
(* active, nor to change the account's role.                             *)
C38_InactiveStaysInactive ==
    [][\A i \in DOMAIN users :
          (users[i].status = UserStatusInactive /\ resp'.op = "update_profile"
           /\ now' = now) =>
              /\ users'[i].status = UserStatusInactive
              /\ users'[i].role = users[i].role
      ]_vars

(* What holds: POST /auth/login and POST /auth/refresh give an inactive  *)
(* account no new token.                                                 *)
C38_InactiveGetsNoToken ==
    [][\A i \in DOMAIN users :
          (users[i].status = UserStatusInactive /\ now' = now
           /\ resp'.op \in {"login", "refresh"} /\ resp'.code = 200) =>
              Val(resp'.user).id # i
      ]_vars

-----------------------------------------------------------------------------
(* Properties of PUT /users/:id *)

(* The email, or the username, asked for by the request r belongs to an  *)
(* account other than the target when the service looks it up.           *)
EmailTaken(r) == \E j \in IdsByEmail(Val(r.q.email)) : j # r.id
UsernameTaken(r) == \E j \in IdsByUsername(Val(r.q.username)) : j # r.id

(* C39: PUT /users/:id answers 409 Conflict whenever the requested email *)
(* or the requested username already belongs to a different account,     *)
(* whichever of the two optional fields the request carries, and leaves  *)
(* the target account unchanged; a request naming the account's own      *)
(* current email or username is not a conflict.                          *)
C39_ConflictAnswered409 ==
    [][\A i \in DOMAIN reqs :
          (reqs[i].op = "update_user" /\ reqs[i].pc \in {"email", "username"}
           /\ UpdateUserStep(i)) =>
              /\ (reqs[i].pc = "email" /\ EmailTaken(reqs[i])) =>
                    (resp'.code = 409 /\ users' = users)
              /\ (reqs[i].pc = "username" /\ UsernameTaken(reqs[i])) =>
                    (resp'.code = 409 /\ users' = users)
              /\ (reqs[i].pc = "email" /\ ~EmailTaken(reqs[i])) => UNCHANGED resp
              /\ (reqs[i].pc = "username" /\ ~UsernameTaken(reqs[i])) => UNCHANGED resp
      ]_vars

(* What holds: a taken email is answered 409, and a taken username is   *)
(* answered 409 when the request carries an email too and 500 when it    *)
(* does not, the account holding the value being one created by POST     *)
(* /users; the account's own email or username is no conflict and no     *)
(* check changes an account.                                             *)
C39_EmailConflict409 ==
    [][\A i \in DOMAIN reqs :
          (reqs[i].op = "update_user" /\ reqs[i].pc \in {"email", "username"}
           /\ UpdateUserStep(i)) =>
              /\ users' = users
              /\ (reqs[i].pc = "email" /\ EmailTaken(reqs[i])
                  /\ RepoLookup(IdsByEmail(Val(reqs[i].q.email))).err = "ok") =>
                    resp'.code = 409
              /\ (reqs[i].pc = "username" /\ UsernameTaken(reqs[i])
                  /\ RepoLookup(IdsByUsername(Val(reqs[i].q.username))).err = "ok") =>
                    resp'.code = IF IsNull(reqs[i].q.email) THEN 500 ELSE 409
              /\ (reqs[i].pc = "email" /\ ~EmailTaken(reqs[i])) => UNCHANGED resp
              /\ (reqs[i].pc = "username" /\ ~UsernameTaken(reqs[i])) => UNCHANGED resp
      ]_vars

(* A request for a taken username that carries no email, answered 500 *)
C39_WitnessUsernameOnly ==
    /\ resp.op = "update_user" /\ resp.code = 500
    /\ resp.err = "username is already taken"

(* Requests for a taken email, and for a taken username beside the      *)
(* account's own email, answered 409                                     *)
C39_WitnessEmail ==
    /\ resp.op = "update_user" /\ resp.code = 409
    /\ resp.err = "email is already taken"

C39_WitnessBoth ==
    /\ resp.op = "update_user" /\ resp.code = 409
    /\ resp.err = "username is already taken"

====
